---- MODULE Spec2Model ----
(***************************************************************************)
(* A model of the structured logger of lib/internal/console/optimized.js   *)
(* (the diagnostics_channel based Logger / LogConsumer / JSONConsumer,     *)
(* lines 549-961): level filtering, record production, channel fan-out and *)
(* the JSON consumer's field merge; and of the buffered console methods of *)
(* the same file (lines 1-154): the queue, its flush triggers and the      *)
(* writes to the console's streams.                                        *)
(***************************************************************************)
EXTENDS Integers, Sequences, FiniteSets, TLC

VARIABLES
    loggers,     \* Seq of Logger objects, in order of construction
    consumers,   \* Seq of consumer objects, in order of construction
    channels,    \* level name -> Seq of subscribed callbacks (consumer ids)
    sinks,       \* Seq of Utf8Stream objects: [fd, dest, lines, ended]
    ncalls,      \* number of log-method calls made so far
    dropped,     \* call numbers of valid calls that found no subscriber
    born,        \* per logger: its parent (0: none), the bindings argument it
                 \* was made with, and the bindings it had when constructed
    last,        \* the last operation and what it did
    logBuffer,       \* Seq of queued entries [message]
    bufferSize,      \* the tracked size of the queue
    flushScheduled,  \* BOOLEAN
    flushTimer,      \* Null or the Timeout of the pending deadline
    immediates,      \* Seq of ids: the setImmediate(flushBuffer) tasks pending
    timers,          \* set of ids: the setTimeout(flushBuffer) timers pending
    stdout,          \* Seq of the lines written to console._stdout
    stderr,          \* Seq of the lines written to console._stderr
    drains,          \* stack of the flushBuffer calls in progress:
                     \* [toFlush, i, by], the innermost last
    tally            \* counts of what has happened so far

logging == <<loggers, consumers, channels, sinks, ncalls, dropped, born>>

console == <<logBuffer, bufferSize, flushScheduled, flushTimer, immediates,
             timers, stdout, stderr, drains, tally>>

vars == <<loggers, consumers, channels, sinks, ncalls, dropped, born, last,
          logBuffer, bufferSize, flushScheduled, flushTimer, immediates,
          timers, stdout, stderr, drains, tally>>

(***************************************************************************)
(* Bounds of the model.                                                    *)
(***************************************************************************)
MaxObjects == 2     \* loggers and consumers constructed, in all
MaxOps == 3         \* attach() calls and log-method calls, in all
MaxFamily == 4      \* loggers and consumers, where loggers have children
                    \* or several consumers attach
MaxRounds == 4      \* attach() calls and log-method calls, where several
                    \* consumers attach
MaxPrints == 4      \* calls of the console's methods, in all
MaxBurst == 102     \* calls of console.log where the queue fills
MaxLarge == 2       \* the first calls, which may log a large message, where
                    \* the queue fills

(***************************************************************************)
(* JavaScript values.  Every value carries its typeof tag.                 *)
(***************************************************************************)
Undefined == [t |-> "undefined"]
Null == [t |-> "null"]
Fn == [t |-> "function"]
Str(s) == [t |-> "string", s |-> s]
Num(n) == [t |-> "number", n |-> n]
Obj(m) == [t |-> "object", m |-> m]
Err(id) == [t |-> "error", id |-> id]

EmptyMap == [k \in {} |-> Undefined]
kEmptyObject == Obj(EmptyMap)

\* { ...a, ...b } on maps: the later source overwrites the earlier on a shared key
Merge(a, b) ==
    [k \in (DOMAIN a) \cup (DOMAIN b) |-> IF k \in DOMAIN b THEN b[k] ELSE a[k]]

\* ToBoolean
Truthy(v) ==
    CASE v.t = "undefined" -> FALSE
      [] v.t = "null" -> FALSE
      [] v.t = "string" -> v.s # ""
      [] v.t = "number" -> v.n # 0
      [] v.t = "boolean" -> v.b
      [] OTHER -> TRUE

\* the own enumerable properties an object spread copies from a value
Spread(v) ==
    CASE v.t = "object" -> v.m
      [] v.t = "string" -> IF v.s = "" THEN EmptyMap ELSE [k \in {"0"} |-> Str(v.s)]
      [] OTHER -> EmptyMap

\* property read obj[key] on a plain map; undefined when absent
Get(m, key) == IF key \in DOMAIN m THEN m[key] ELSE Undefined

IsUndefined(v) == v.t = "undefined"

(***************************************************************************)
(* internal/validators, as the logger uses them: each returns the error    *)
(* code it throws, "" when it passes.                                      *)
(***************************************************************************)
validateObject(value) == IF value.t = "object" THEN "" ELSE "ERR_INVALID_ARG_TYPE"

validateString(value) == IF value.t = "string" THEN "" ELSE "ERR_INVALID_ARG_TYPE"

validateOneOf(value, oneOf) ==
    IF value.t = "string" /\ value.s \in oneOf THEN "" ELSE "ERR_INVALID_ARG_VALUE"

(***************************************************************************)
(* Levels.                                                                 *)
(***************************************************************************)
LEVEL_NAMES == <<"trace", "debug", "info", "warn", "error", "fatal">>

LevelSet == {LEVEL_NAMES[i] : i \in DOMAIN LEVEL_NAMES}

LevelWeight(name) ==
    CASE name = "trace" -> 10
      [] name = "debug" -> 20
      [] name = "info" -> 30
      [] name = "warn" -> 40
      [] name = "error" -> 50
      [] name = "fatal" -> 60

\* names every object literal inherits from Object.prototype
ObjectPrototypeKeys == {"toString", "constructor"}

\* the property read LEVELS[name] on the object literal LEVELS
LEVELS(name) ==
    IF name \in LevelSet THEN Num(LevelWeight(name))
    ELSE IF name \in ObjectPrototypeKeys THEN Fn
    ELSE Undefined

\* relational comparison a < b: ToNumber of anything but a number is NaN here,
\* and every comparison with NaN is false
JsLess(a, b) == a.t = "number" /\ b.t = "number" /\ a.n < b.n

JsGreater(a, b) == JsLess(b, a)

JsGreaterEq(a, b) == a.t = "number" /\ b.t = "number" /\ a.n >= b.n

(***************************************************************************)
(* Error objects.  An Error is named by its id in ErrorPool; own holds its *)
(* own properties, enumerable the keys a for-in loop visits.               *)
(***************************************************************************)
ErrorIds == 1..12

ErrorPool(id) ==
    CASE id = 1 ->
           [own |-> [message |-> Str("boom"), stack |-> Str("stack1")],
            enumerable |-> {}]
      [] id = 2 ->
           [own |-> [message |-> Str("fail"), stack |-> Str("stack2"),
                     code |-> Str("E_FAIL"), cause |-> Err(3)],
            enumerable |-> {"code"}]
      [] id = 3 ->
           [own |-> [message |-> Str("root"), stack |-> Str("stack3"),
                     cause |-> Err(2), detail |-> Str("d")],
            enumerable |-> {"detail"}]
      \* e.cause = e, assigned after construction
      [] id = 4 ->
           [own |-> [message |-> Str("self"), stack |-> Str("stack4"),
                     cause |-> Err(4)],
            enumerable |-> {"cause"}]
      \* a cycle of three
      [] id = 5 ->
           [own |-> [message |-> Str("five"), stack |-> Str("stack5"),
                     cause |-> Err(6)],
            enumerable |-> {}]
      [] id = 6 ->
           [own |-> [message |-> Str("six"), stack |-> Str("stack6"),
                     cause |-> Err(7)],
            enumerable |-> {}]
      [] id = 7 ->
           [own |-> [message |-> Str("seven"), stack |-> Str("stack7"),
                     cause |-> Err(5)],
            enumerable |-> {}]
      \* a chain without a cycle, ending in a cause that is no Error
      [] id = 8 ->
           [own |-> [message |-> Str("outer"), stack |-> Str("stack8"),
                     cause |-> Err(9)],
            enumerable |-> {}]
      [] id = 9 ->
           [own |-> [message |-> Str("inner"), stack |-> Str("stack9"),
                     cause |-> Str("disk")],
            enumerable |-> {}]
      \* falsy values under reserved keys, made enumerable by assignment
      [] id = 10 ->
           [own |-> [message |-> Str(""), stack |-> Str("stack10"),
                     name |-> Str(""), code |-> Num(0),
                     flag |-> [t |-> "boolean", b |-> FALSE]],
            enumerable |-> {"message", "name", "code", "flag"}]
      [] id = 11 ->
           [own |-> [message |-> Str("eleven"), stack |-> Str("stack11"),
                     code |-> Str(""), cause |-> [t |-> "boolean", b |-> FALSE],
                     detail |-> Str("d")],
            enumerable |-> {"code", "cause", "detail"}]
      \* own enumerable properties named as properties of Object.prototype
      [] id = 12 ->
           [own |-> [message |-> Str("twelve"), stack |-> Str("stack12"),
                     constructor |-> Str("Widget"), detail |-> Str("d")],
            enumerable |-> {"constructor", "detail"}]

\* the property read on an object whose own properties are own and whose
\* prototype is Error.prototype
ErrRead(own, key) ==
    IF key \in DOMAIN own THEN own[key]
    ELSE IF key = "name" THEN Str("Error")
    ELSE Undefined

\* the property read err[key]: own properties, then Error.prototype.name
ErrGet(id, key) == ErrRead(ErrorPool(id).own, key)

_isError(value) == value.t = "error"

\* if (err.code !== undefined) serialized.code = err.code
SetCode(serialized, code) ==
    IF IsUndefined(code) THEN serialized
    ELSE Merge(serialized, [code |-> code])

\* if (err.cause !== undefined) serialized.cause = nested, the value the
\* serializer gives for the cause
SetCause(serialized, cause, nested) ==
    IF IsUndefined(cause) THEN serialized
    ELSE Merge(serialized, [cause |-> nested])

\* the property read serialized[key] on the object literal
SerializedRead(serialized, key) ==
    IF key \in DOMAIN serialized THEN serialized[key]
    ELSE IF key \in ObjectPrototypeKeys THEN Fn
    ELSE Undefined

\* for (const key in err) if (serialized[key] === undefined)
\*     serialized[key] = err[key], over the enumerable keys
CopyEnumerable(own, keys, serialized) ==
    Obj([k \in (DOMAIN serialized)
                  \cup {x \in keys : IsUndefined(SerializedRead(serialized, x))} |->
            IF IsUndefined(SerializedRead(serialized, k))
            THEN ErrRead(own, k) ELSE serialized[k]])

RECURSIVE _serializeError(_, _)
\* this._isError(err.cause) ? this._serializeError(err.cause, seen) : err.cause
SerializedCause(cause, seen) ==
    IF _isError(cause) THEN _serializeError(cause.id, seen) ELSE cause

\* a serializer that puts the marker in place of every cause that is an Error
SerializeErrorNoDescent(id, seen) ==
    Obj(SetCause(SetCode([message |-> ErrGet(id, "message"),
                          name |-> ErrGet(id, "name"),
                          stack |-> ErrGet(id, "stack")],
                         ErrGet(id, "code")),
                 ErrGet(id, "cause"),
                 IF _isError(ErrGet(id, "cause")) THEN Str("[Circular]")
                 ELSE ErrGet(id, "cause")))

_serializeError(id, seen) ==
    IF id \in seen THEN Str("[Circular]")
    ELSE CopyEnumerable(
           ErrorPool(id).own, ErrorPool(id).enumerable,
           SetCause(SetCode([message |-> ErrGet(id, "message"),
                             name |-> ErrGet(id, "name"),
                             stack |-> ErrGet(id, "stack")],
                            ErrGet(id, "code")),
                    ErrGet(id, "cause"),
                    SerializedCause(ErrGet(id, "cause"), seen \cup {id})))

(***************************************************************************)
(* Results of constructors and calls: err is the code of the error thrown, *)
(* "" when the call returns normally.                                      *)
(***************************************************************************)
NoObject == [none |-> TRUE]

Throw(code) == [err |-> code, obj |-> NoObject]

Return(obj) == [err |-> "", obj |-> obj]

(***************************************************************************)
(* Logger                                                                  *)
(***************************************************************************)
\* Logger._setLogMethods: the own method of each level, "noop" when replaced,
\* "_log" when the prototype method (which calls _log) stays
_setLogMethods(levelValue) ==
    [name \in LevelSet |->
        IF JsGreater(levelValue, LEVELS(name)) THEN "noop" ELSE "_log"]

\* a constructor that caches the weight of the default level instead of the
\* weight of the level it was given
LoggerDefaultWeight(options) ==
    LET level == IF IsUndefined(options.level) THEN Str("info") ELSE options.level
        bindings == IF IsUndefined(options.bindings) THEN kEmptyObject
                    ELSE options.bindings
    IN  IF validateString(level) # "" THEN Throw(validateString(level))
        ELSE IF ~Truthy(LEVELS(level.s)) THEN Throw("ERR_INVALID_ARG_VALUE")
        ELSE IF validateObject(bindings) # "" THEN Throw(validateObject(bindings))
        ELSE Return([_level |-> level.s,
                     _levelValue |-> LEVELS("info"),
                     _bindings |-> bindings.m,
                     methods |-> _setLogMethods(LEVELS("info"))])

\* new Logger(options), options = [level, bindings]
Logger(options) ==
    LET level == IF IsUndefined(options.level) THEN Str("info") ELSE options.level
        bindings == IF IsUndefined(options.bindings) THEN kEmptyObject
                    ELSE options.bindings
    IN  IF validateString(level) # "" THEN Throw(validateString(level))
        ELSE IF ~Truthy(LEVELS(level.s)) THEN Throw("ERR_INVALID_ARG_VALUE")
        ELSE IF validateObject(bindings) # "" THEN Throw(validateObject(bindings))
        ELSE Return([_level |-> level.s,
                     _levelValue |-> LEVELS(level.s),
                     _bindings |-> bindings.m,
                     methods |-> _setLogMethods(LEVELS(level.s))])

\* Logger.enabled(level)
enabled(self, level) == JsGreaterEq(LEVELS(level), self._levelValue)

\* an ObjectAssign in which the parent's value wins on a shared key
MergedParentWins(self, bindings) ==
    [merged |-> Merge(bindings.m, self._bindings), parent |-> self._bindings]

\* an ObjectAssign whose target is the parent's own map
MergedIntoParent(self, bindings) ==
    [merged |-> Merge(self._bindings, bindings.m),
     parent |-> Merge(self._bindings, bindings.m)]

\* ObjectAssign({ __proto__: null }, this._bindings, bindings) in child(): the
\* map it returns, and what the parent's map holds afterwards
mergedBindings(self, bindings) ==
    [merged |-> Merge(self._bindings, bindings.m), parent |-> self._bindings]

\* Logger.child(bindings, options), options = [level]
child(self, bindings, options) ==
    IF validateObject(bindings) # "" THEN Throw(validateObject(bindings))
    ELSE Logger([level |-> IF Truthy(options.level) THEN options.level
                           ELSE Str(self._level),
                 bindings |-> Obj(mergedBindings(self, bindings).merged)])

\* what a log method returns to the action: the error thrown and the records
\* handed to channel.publish
Quiet == [err |-> "", published |-> <<>>]

\* the argument checks of _log: the code of the error thrown, "" when none
ValidateLogArgs(msgOrObj, fields) ==
    IF msgOrObj.t = "string"
    THEN IF ~IsUndefined(fields) THEN validateObject(fields) ELSE ""
    ELSE IF ~_isError(msgOrObj)
    THEN IF validateObject(msgOrObj) # "" THEN validateObject(msgOrObj)
         ELSE validateString(Get(msgOrObj.m, "msg"))
    ELSE ""

\* the record _log builds from checked arguments
BuildRecord(self, level, msgOrObj, fields, now) ==
    LET msg == CASE _isError(msgOrObj) -> ErrGet(msgOrObj.id, "message")
                 [] msgOrObj.t = "string" -> msgOrObj
                 [] OTHER -> msgOrObj.m["msg"]
        restFields == [k \in (DOMAIN msgOrObj.m) \ {"msg"} |-> msgOrObj.m[k]]
        logFields ==
            CASE _isError(msgOrObj) ->
                   Merge([err |-> _serializeError(msgOrObj.id, {})], Spread(fields))
              [] msgOrObj.t = "string" ->
                   IF Truthy(fields) THEN fields.m ELSE EmptyMap
              [] OTHER ->
                   IF Truthy(Get(restFields, "err")) /\ _isError(restFields["err"])
                   THEN [restFields EXCEPT
                           !["err"] = _serializeError(restFields["err"].id, {})]
                   ELSE restFields
    IN  [level |-> Str(level), msg |-> msg, time |-> Num(now),
         bindings |-> Obj(self._bindings), fields |-> Obj(logFields)]

\* a _log that publishes without asking the channel for subscribers
LogNoSubscriberCheck(self, level, levelValue, msgOrObj, fields, now) ==
    IF JsLess(levelValue, self._levelValue) THEN Quiet
    ELSE IF ValidateLogArgs(msgOrObj, fields) # ""
    THEN [err |-> ValidateLogArgs(msgOrObj, fields), published |-> <<>>]
    ELSE [err |-> "",
          published |-> <<BuildRecord(self, level, msgOrObj, fields, now)>>]

\* a _log that asks the channel for subscribers before it checks its arguments
LogCheckAfterSubscribers(self, level, levelValue, msgOrObj, fields, now) ==
    IF JsLess(levelValue, self._levelValue) THEN Quiet
    ELSE IF channels[level] = <<>> THEN Quiet
    ELSE IF ValidateLogArgs(msgOrObj, fields) # ""
    THEN [err |-> ValidateLogArgs(msgOrObj, fields), published |-> <<>>]
    ELSE [err |-> "",
          published |-> <<BuildRecord(self, level, msgOrObj, fields, now)>>]

\* Logger._log(level, levelValue, msgOrObj, fields); now is what DateNow() returns
_log(self, level, levelValue, msgOrObj, fields, now) ==
    IF JsLess(levelValue, self._levelValue) THEN Quiet
    ELSE IF ValidateLogArgs(msgOrObj, fields) # ""
    THEN [err |-> ValidateLogArgs(msgOrObj, fields), published |-> <<>>]
    ELSE IF channels[level] = <<>> THEN Quiet
    ELSE [err |-> "",
          published |-> <<BuildRecord(self, level, msgOrObj, fields, now)>>]

\* the call logger[name](msgOrObj, fields): the own noop, or the prototype
\* method, which calls _log with the name and weight of its level
CallMethod(self, name, msgOrObj, fields, now) ==
    IF self.methods[name] = "noop" THEN Quiet
    ELSE _log(self, name, LEVELS(name), msgOrObj, fields, now)

(***************************************************************************)
(* Consumers                                                               *)
(***************************************************************************)
\* new LogConsumer(options), options = [level]
LogConsumer(options) ==
    LET level == IF IsUndefined(options.level) THEN Str("info") ELSE options.level
    IN  IF validateString(level) # "" THEN Throw(validateString(level))
        ELSE IF validateOneOf(level, LevelSet) # ""
        THEN Throw(validateOneOf(level, LevelSet))
        ELSE Return([kind |-> "LogConsumer",
                     _level |-> level.s,
                     _levelValue |-> LEVELS(level.s),
                     _fields |-> EmptyMap,
                     _stream |-> 0])

\* a handle of the base class that returns without throwing
HandleInherited(self, record) == Return(NoObject)

\* LogConsumer.handle(record), which subclasses are to override
LogConsumerHandle(self, record) == Throw("ERR_METHOD_NOT_IMPLEMENTED")

\* a Utf8Stream as the consumer sees it: its destination and what was written
Utf8Stream(fd, dest) == [fd |-> fd, dest |-> dest, lines |-> <<>>, ended |-> FALSE]

\* JSONConsumer._createStream(stream): the index of the stream in sinks, and
\* the stream to add to sinks when a new one is made (fresh is the next index)
_createStream(stream, fresh) ==
    CASE stream.t = "Utf8Stream" -> Return([at |-> stream.id, made |-> <<>>])
      [] stream.t = "number" ->
           Return([at |-> fresh, made |-> <<Utf8Stream(stream, Undefined)>>])
      [] stream.t = "string" ->
           Return([at |-> fresh, made |-> <<Utf8Stream(Undefined, stream)>>])
      [] OTHER -> Throw("ERR_INVALID_ARG_TYPE")

\* new JSONConsumer(options), options = [level, stream, fields]
JSONConsumer(options, fresh) ==
    LET base == LogConsumer(options)
        fields == IF IsUndefined(options.fields) THEN kEmptyObject ELSE options.fields
        made == IF Truthy(options.stream) THEN _createStream(options.stream, fresh)
                ELSE Return([at |-> fresh, made |-> <<Utf8Stream(Num(1), Undefined)>>])
    IN  IF base.err # "" THEN [err |-> base.err, obj |-> NoObject, made |-> <<>>]
        ELSE IF validateObject(fields) # ""
        THEN [err |-> validateObject(fields), obj |-> NoObject, made |-> <<>>]
        ELSE IF made.err # "" THEN [err |-> made.err, obj |-> NoObject, made |-> <<>>]
        ELSE [err |-> "",
              obj |-> [base.obj EXCEPT !.kind = "JSONConsumer",
                                       !._fields = fields.m,
                                       !._stream = made.obj.at],
              made |-> made.obj.made]

\* LogConsumer.enabled(level)
consumerEnabled(self, level) == JsGreaterEq(LEVELS(level), self._levelValue)

\* LogConsumer.attach() of consumer c: one more callback on the channel of
\* every level the consumer has enabled
attach(c) ==
    [level \in LevelSet |->
        IF consumerEnabled(consumers[c], level) THEN Append(channels[level], c)
        ELSE channels[level]]

\* JSONStringify: properties holding undefined or a function are left out; an
\* Error object gives its own enumerable properties
RECURSIVE JSONStringify(_)
JSONStringify(v) ==
    CASE v.t = "object" ->
           Obj([k \in {x \in DOMAIN v.m : v.m[x].t \notin {"undefined", "function"}} |->
                   JSONStringify(v.m[k])])
      [] v.t = "error" ->
           Obj([k \in {x \in ErrorPool(v.id).enumerable :
                         ErrGet(v.id, x).t \notin {"undefined", "function"}} |->
                   JSONStringify(ErrGet(v.id, k))])
      \* an instance of a class gives its own enumerable properties
      [] v.t = "instance" ->
           Obj([k \in {x \in DOMAIN v.m : v.m[x].t \notin {"undefined", "function"}} |->
                   JSONStringify(v.m[k])])
      \* an array keeps its length: undefined and functions become null
      [] v.t = "array" ->
           [t |-> "array",
            a |-> [i \in DOMAIN v.a |->
                      IF v.a[i].t \in {"undefined", "function"} THEN Null
                      ELSE JSONStringify(v.a[i])]]
      [] OTHER -> v

\* a handle that spreads the record's bindings after the record's fields
HandleBindingsLast(self, record) ==
    [json |-> JSONStringify(Obj(
        Merge(Merge(Merge([level |-> record.level, time |-> record.time,
                           msg |-> record.msg],
                          self._fields),
                    record.fields.m),
              record.bindings.m))),
     eol |-> "\n"]

\* a handle that sets level, time and msg after the spreads
HandleReservedLast(self, record) ==
    [json |-> JSONStringify(Obj(
        Merge(Merge(Merge(self._fields, record.bindings.m), record.fields.m),
              [level |-> record.level, time |-> record.time, msg |-> record.msg]))),
     eol |-> "\n"]

\* JSONConsumer.handle(record): the text handed to this._stream.write
handle(self, record) ==
    [json |-> JSONStringify(Obj(
        Merge(Merge(Merge([level |-> record.level, time |-> record.time,
                           msg |-> record.msg],
                          self._fields),
                    record.bindings.m),
              record.fields.m))),
     eol |-> "\n"]

\* a handle that writes only a record of a level the consumer is enabled for
HandleWritesEnabledOnly(self, record) ==
    IF consumerEnabled(self, record.level.s) THEN <<handle(self, record)>> ELSE <<>>

\* the calls of this._stream.write that JSONConsumer.handle(record) makes, in
\* order, each with the text it is given
handleWrites(self, record) == <<handle(self, record)>>

\* channel.publish(record) to the callbacks subs, in order: each callback is
\* _handleLog of its consumer; what an abstract handle throws stays in the
\* channel.  Gives the sinks afterwards and the writes made, in order.
\* a publish that calls the callbacks from the newest subscription to the oldest
RECURSIVE PublishNewestFirst(_, _, _, _)
PublishNewestFirst(subs, record, call, acc) ==
    IF subs = <<>> THEN acc
    ELSE
      LET c == subs[Len(subs)]
          self == consumers[c]
          rest == SubSeq(subs, 1, Len(subs) - 1)
      IN  IF self.kind = "JSONConsumer"
          THEN LET text == handle(self, record)
                   at == self._stream
               IN  PublishNewestFirst(rest, record, call,
                     [sinks |-> [acc.sinks EXCEPT ![at].lines =
                                    Append(@, [data |-> text, call |-> call])],
                      writes |-> Append(acc.writes,
                                    [consumer |-> c, sink |-> at, data |-> text])])
          ELSE PublishNewestFirst(rest, record, call, acc)

RECURSIVE publish(_, _, _, _)
publish(subs, record, call, acc) ==
    IF subs = <<>> THEN acc
    ELSE
      LET c == Head(subs)
          self == consumers[c]
      IN  IF self.kind = "JSONConsumer"
          THEN LET text == handle(self, record)
                   at == self._stream
               IN  publish(Tail(subs), record, call,
                     [sinks |-> [acc.sinks EXCEPT ![at].lines =
                                    Append(@, [data |-> text, call |-> call])],
                      writes |-> Append(acc.writes,
                                    [consumer |-> c, sink |-> at, data |-> text])])
          ELSE publish(Tail(subs), record, call, acc)

(***************************************************************************)
(* The buffered console.  The scheduler is the module's four variables and *)
(* the tasks and timers it has pending in the event loop; a message is the *)
(* text a call formatted and its length.                                   *)
(***************************************************************************)
kBufferFlushThreshold == 16 * 1024

kBufferFlushCount == 100

Timeout(id) == [t |-> "Timeout", id |-> id]

Scheduler ==
    [logBuffer |-> logBuffer, bufferSize |-> bufferSize,
     flushScheduled |-> flushScheduled, flushTimer |-> flushTimer,
     immediates |-> immediates, timers |-> timers]

\* a flushBuffer that writes the newest entry and forgets the others
FlushNewestOnly(s) ==
    IF Len(s.logBuffer) = 0 THEN [s |-> s, toFlush |-> <<>>]
    ELSE [s |-> [s EXCEPT !.logBuffer = <<>>,
                          !.bufferSize = 0,
                          !.flushScheduled = FALSE,
                          !.timers = IF Truthy(s.flushTimer)
                                     THEN @ \ {s.flushTimer.id} ELSE @,
                          !.flushTimer = IF Truthy(s.flushTimer) THEN Null ELSE @],
          toFlush |-> <<s.logBuffer[Len(s.logBuffer)]>>]

\* a flushBuffer that writes the queue and keeps it
FlushKeepsQueue(s) ==
    IF Len(s.logBuffer) = 0 THEN [s |-> s, toFlush |-> <<>>]
    ELSE [s |-> [s EXCEPT !.flushScheduled = FALSE,
                          !.timers = IF Truthy(s.flushTimer)
                                     THEN @ \ {s.flushTimer.id} ELSE @,
                          !.flushTimer = IF Truthy(s.flushTimer) THEN Null ELSE @],
          toFlush |-> s.logBuffer]

\* flushBuffer(): the scheduler it leaves, and the queue it took to write
FlushKeepsTimer(s) ==
    IF Len(s.logBuffer) = 0 THEN [s |-> s, toFlush |-> <<>>]
    ELSE [s |-> [s EXCEPT !.logBuffer = <<>>,
                          !.bufferSize = 0,
                          !.flushScheduled = FALSE],
          toFlush |-> s.logBuffer]

flushBuffer(s) ==
    IF Len(s.logBuffer) = 0 THEN [s |-> s, toFlush |-> <<>>]
    ELSE [s |-> [s EXCEPT !.logBuffer = <<>>,
                          !.bufferSize = 0,
                          !.flushScheduled = FALSE,
                          !.timers = IF Truthy(s.flushTimer)
                                     THEN @ \ {s.flushTimer.id} ELSE @,
                          !.flushTimer = IF Truthy(s.flushTimer) THEN Null ELSE @],
          toFlush |-> s.logBuffer]

\* a scheduleFlush that arms a task and a timer in every call
ScheduleFlushRearms(s, id) ==
    [s EXCEPT !.flushScheduled = TRUE,
              !.immediates = Append(@, id),
              !.timers = (IF Truthy(s.flushTimer) THEN @ \ {s.flushTimer.id} ELSE @)
                            \cup {id},
              !.flushTimer = Timeout(id)]

\* scheduleFlush(); id names the task and the timer it arms
scheduleFlush(s, id) ==
    IF s.flushScheduled THEN s
    ELSE [s EXCEPT !.flushScheduled = TRUE,
                   !.immediates = Append(@, id),
                   !.timers = @ \cup {id},
                   !.flushTimer = Timeout(id)]

\* a log that flushes in every call
LogFlushAlways(s, message, id) ==
    LET entry == [message |-> message]
        pushed == [s EXCEPT !.logBuffer = Append(@, entry),
                            !.bufferSize = @ + message.length]
    IN  flushBuffer(pushed)

\* a log that leaves every flush to the task and the timer
LogScheduleOnly(s, message, id) ==
    LET entry == [message |-> message]
        pushed == [s EXCEPT !.logBuffer = Append(@, entry),
                            !.bufferSize = @ + message.length]
    IN  [s |-> scheduleFlush(pushed, id), toFlush |-> <<>>]

\* a log that flushes only when the queue has grown beyond a threshold
LogFlushAbove(s, message, id) ==
    LET entry == [message |-> message]
        pushed == [s EXCEPT !.logBuffer = Append(@, entry),
                            !.bufferSize = @ + message.length]
    IN  IF pushed.bufferSize > kBufferFlushThreshold
             \/ Len(pushed.logBuffer) > kBufferFlushCount
        THEN flushBuffer(pushed)
        ELSE [s |-> scheduleFlush(pushed, id), toFlush |-> <<>>]

\* a log that does not track the size of what it queues
LogForgetsSize(s, message, id) ==
    LET entry == [message |-> message]
        pushed == [s EXCEPT !.logBuffer = Append(@, entry)]
    IN  IF pushed.bufferSize >= kBufferFlushThreshold
             \/ Len(pushed.logBuffer) >= kBufferFlushCount
        THEN flushBuffer(pushed)
        ELSE [s |-> scheduleFlush(pushed, id), toFlush |-> <<>>]

\* optimizedMethods.log, from the formatted message on
log(s, message, id) ==
    LET entry == [message |-> message]
        pushed == [s EXCEPT !.logBuffer = Append(@, entry),
                            !.bufferSize = @ + message.length]
    IN  IF pushed.bufferSize >= kBufferFlushThreshold
             \/ Len(pushed.logBuffer) >= kBufferFlushCount
        THEN flushBuffer(pushed)
        ELSE [s |-> scheduleFlush(pushed, id), toFlush |-> <<>>]

\* values of other kinds than the logger's: booleans, arrays, instances of a
\* class, and a reference from inside a container to a container around it
Bool(b) == [t |-> "boolean", b |-> b]

Arr(a) == [t |-> "array", a |-> a]

Instance(m) == [t |-> "instance", m |-> m]

Cyclic == [t |-> "cycle"]

\* JSON.stringify throws on a value that holds a reference to a container
\* around it
RECURSIVE JSONStringifyThrows(_)
JSONStringifyThrows(v) ==
    CASE v.t = "cycle" -> TRUE
      [] v.t \in {"object", "instance"} ->
           \E k \in DOMAIN v.m : JSONStringifyThrows(v.m[k])
      [] v.t = "array" -> \E i \in DOMAIN v.a : JSONStringifyThrows(v.a[i])
      [] OTHER -> FALSE

\* obj.constructor === Object || obj.constructor === Array
PlainConstructor(obj) == obj.t \in {"object", "array"}

\* fastStringify(obj): the text, named by the function that made it
fastStringify(obj) ==
    CASE obj.t = "null" -> [by |-> "literal", text |-> Str("null")]
      [] obj.t = "undefined" -> [by |-> "literal", text |-> Str("undefined")]
      [] obj.t = "string" -> [by |-> "identity", text |-> obj]
      [] obj.t \in {"number", "boolean"} -> [by |-> "String", text |-> obj]
      [] obj.t \in {"object", "array", "instance", "error"}
           /\ PlainConstructor(obj) /\ ~JSONStringifyThrows(obj) ->
           [by |-> "JSON.stringify", text |-> JSONStringify(obj)]
      [] OTHER -> [by |-> "inspect", text |-> obj]

\* message + '\n', what stream.write is given
Line(message) == [text |-> message.text, eol |-> "\n"]

\* an error that writes to the stream of log
ErrorToStdout(message) == [stream |-> "_stdout", line |-> Line(message)]

\* optimizedMethods.error and optimizedMethods.warn, from the formatted
\* message on: the stream written and the line
error(message) == [stream |-> "_stderr", line |-> Line(message)]

warn(message) == [stream |-> "_stderr", line |-> Line(message)]

(***************************************************************************)
(* The state machine.  last records the operation just performed: its      *)
(* arguments, the error it threw, and for a log call the records handed to *)
(* publish and the writes made before the call returned.                   *)
(***************************************************************************)
NoOp ==
    [op |-> "none", err |-> "", logger |-> 0, consumer |-> 0, created |-> 0,
     name |-> "", level |-> Undefined, msgOrObj |-> Undefined, fields |-> Undefined,
     subscribers |-> <<>>, published |-> <<>>, writes |-> <<>>,
     trigger |-> 0, cycle |-> 0, batch |-> <<>>, queued |-> <<>>]

Init ==
    /\ loggers = <<>>
    /\ consumers = <<>>
    /\ channels = [level \in LevelSet |-> <<>>]
    /\ sinks = <<>>
    /\ ncalls = 0
    /\ dropped = {}
    /\ born = <<>>
    /\ last = NoOp
    /\ logBuffer = <<>>
    /\ bufferSize = 0
    /\ flushScheduled = FALSE
    /\ flushTimer = Null
    /\ immediates = <<>>
    /\ timers = {}
    /\ stdout = <<>>
    /\ stderr = <<>>
    /\ drains = <<>>
    /\ tally = [logged |-> 0, bytes |-> 0, direct |-> 0, armed |-> 0,
                flushes |-> 0, fired |-> 0, exited |-> FALSE, texts |-> <<>>]

\* createLogger({level, bindings}); room is the number of loggers and
\* consumers the specification lets exist
NewLogger(room, levelOpts, bindingOpts) ==
    \E level \in levelOpts, bindings \in bindingOpts :
        LET r == Logger([level |-> level, bindings |-> bindings])
        IN  /\ r.err = "" => Len(loggers) + Len(consumers) < room
            /\ loggers' = IF r.err = "" THEN Append(loggers, r.obj) ELSE loggers
            /\ born' = IF r.err = ""
                       THEN Append(born, [parent |-> 0, args |-> bindings,
                                          bindings |-> r.obj._bindings])
                       ELSE born
            /\ last' = [NoOp EXCEPT !.op = "Logger", !.err = r.err, !.level = level,
                                    !.fields = bindings,
                                    !.created = IF r.err = "" THEN Len(loggers) + 1 ELSE 0]
            /\ UNCHANGED <<consumers, channels, sinks, ncalls, dropped, console>>

\* parent.child(bindings, {level})
NewChild(room, bindingArgs, levelOpts) ==
    \E p \in DOMAIN loggers, bindings \in bindingArgs, level \in levelOpts :
        LET r == child(loggers[p], bindings, [level |-> level])
            parent == IF validateObject(bindings) # "" THEN loggers[p]
                      ELSE [loggers[p] EXCEPT
                              !._bindings = mergedBindings(loggers[p], bindings).parent]
            others == [loggers EXCEPT ![p] = parent]
        IN  /\ r.err = "" => Len(loggers) + Len(consumers) < room
            /\ loggers' = IF r.err = "" THEN Append(others, r.obj) ELSE others
            /\ last' = [NoOp EXCEPT !.op = "child", !.err = r.err, !.logger = p,
                                    !.level = level, !.fields = bindings,
                                    !.created = IF r.err = "" THEN Len(loggers) + 1 ELSE 0]
            /\ born' = IF r.err = ""
                       THEN Append(born, [parent |-> p, args |-> bindings,
                                          bindings |-> r.obj._bindings])
                       ELSE born
            /\ UNCHANGED <<consumers, channels, sinks, ncalls, dropped, console>>

\* new JSONConsumer({level, stream, fields})
NewJSONConsumer(room, levelOpts, streamOpts, fieldOpts) ==
    \E level \in levelOpts, stream \in streamOpts, fields \in fieldOpts :
        LET r == JSONConsumer([level |-> level, stream |-> stream, fields |-> fields],
                              Len(sinks) + 1)
        IN  /\ r.err = "" => Len(loggers) + Len(consumers) < room
            /\ consumers' = IF r.err = "" THEN Append(consumers, r.obj) ELSE consumers
            /\ sinks' = sinks \o r.made
            /\ last' = [NoOp EXCEPT !.op = "JSONConsumer", !.err = r.err,
                                    !.level = level, !.fields = fields,
                                    !.msgOrObj = stream,
                                    !.created = IF r.err = "" THEN Len(consumers) + 1 ELSE 0]
            /\ UNCHANGED <<loggers, channels, ncalls, dropped, born, console>>

\* new LogConsumer({level}), the base class itself
NewLogConsumer(room, levelOpts) ==
    \E level \in levelOpts :
        LET r == LogConsumer([level |-> level])
        IN  /\ r.err = "" => Len(loggers) + Len(consumers) < room
            /\ consumers' = IF r.err = "" THEN Append(consumers, r.obj) ELSE consumers
            /\ last' = [NoOp EXCEPT !.op = "LogConsumer", !.err = r.err,
                                    !.level = level,
                                    !.created = IF r.err = "" THEN Len(consumers) + 1 ELSE 0]
            /\ UNCHANGED <<loggers, channels, sinks, ncalls, dropped, born, console>>

\* consumer.handle(record), called directly: the base method throws, the
\* method of JSONConsumer writes the line of the record to its stream
HandleCall(budget, records) ==
    \E c \in DOMAIN consumers, record \in records :
        LET self == consumers[c]
            r == IF self.kind = "JSONConsumer" THEN Return(NoObject)
                 ELSE LogConsumerHandle(self, record)
            texts == IF self.kind = "JSONConsumer" /\ r.err = ""
                     THEN handleWrites(self, record) ELSE <<>>
        IN  /\ Len(channels["fatal"]) + ncalls < budget
            /\ ncalls' = ncalls + 1
            /\ sinks' = IF texts # <<>>
                         THEN [sinks EXCEPT ![self._stream].lines =
                                  @ \o [i \in DOMAIN texts |->
                                           [data |-> texts[i], call |-> ncalls + 1]]]
                         ELSE sinks
            /\ last' = [NoOp EXCEPT
                          !.op = "handle", !.err = r.err, !.consumer = c,
                          !.published = <<record>>,
                          !.writes = [i \in DOMAIN texts |->
                                        [consumer |-> c, sink |-> self._stream,
                                         data |-> texts[i]]]]
            /\ UNCHANGED <<loggers, consumers, channels, dropped, born, console>>

\* consumer.attach(); budget is the number of attach() and log-method calls
\* the specification lets happen
Attach(budget) ==
    \E c \in DOMAIN consumers :
        /\ Len(channels["fatal"]) + ncalls < budget
        /\ channels' = attach(c)
        /\ last' = [NoOp EXCEPT !.op = "attach", !.consumer = c]
        /\ UNCHANGED <<loggers, consumers, sinks, ncalls, dropped, born, console>>

\* JSONConsumer.end(): this._stream.end(), and nothing else
End ==
    \E c \in DOMAIN consumers :
        /\ consumers[c].kind = "JSONConsumer"
        /\ sinks' = [sinks EXCEPT ![consumers[c]._stream].ended = TRUE]
        /\ last' = [NoOp EXCEPT !.op = "end", !.consumer = c]
        /\ UNCHANGED <<loggers, consumers, channels, ncalls, dropped, born, console>>

\* the caller assigns properties to the map it passed as options.bindings; the
\* constructor kept that very map (this._bindings = bindings), while a default
\* logger holds the frozen kEmptyObject and a child the map child() made
MutateBindings(assignments) ==
    \E lg \in DOMAIN loggers, props \in assignments :
        /\ born[lg].parent = 0
        /\ born[lg].args.t = "object"
        /\ loggers' = [loggers EXCEPT ![lg]._bindings = Merge(@, props)]
        /\ last' = [NoOp EXCEPT !.op = "mutate", !.logger = lg, !.fields = Obj(props)]
        /\ UNCHANGED <<consumers, channels, sinks, ncalls, dropped, born, console>>

\* the call reaches the hasSubscribers test of _log and returns there
DroppedAtChannel(self, name, msgOrObj, fields) ==
    /\ self.methods[name] = "_log"
    /\ ~JsLess(LEVELS(name), self._levelValue)
    /\ ValidateLogArgs(msgOrObj, fields) = ""
    /\ channels[name] = <<>>

\* logger[name](msgOrObj, fields), DateNow() returning now; dropped collects
\* the numbers of the calls that returned at the hasSubscribers test
LogCall(budget, names, arguments, times) ==
    \E lg \in DOMAIN loggers, name \in names, args \in arguments, now \in times :
        LET msgOrObj == args[1]
            fields == args[2]
            r == CallMethod(loggers[lg], name, msgOrObj, fields, now)
            d == IF r.published = <<>> THEN [sinks |-> sinks, writes |-> <<>>]
                 ELSE publish(channels[name], r.published[1], ncalls + 1,
                              [sinks |-> sinks, writes |-> <<>>])
        IN  /\ Len(channels["fatal"]) + ncalls < budget
            /\ ncalls' = ncalls + 1
            /\ sinks' = d.sinks
            /\ dropped' = IF DroppedAtChannel(loggers[lg], name, msgOrObj, fields)
                          THEN dropped \cup {ncalls + 1} ELSE dropped
            /\ last' = [NoOp EXCEPT !.op = "log", !.err = r.err, !.logger = lg,
                                    !.name = name, !.msgOrObj = msgOrObj,
                                    !.fields = fields, !.level = Num(now),
                                    !.subscribers = channels[name],
                                    !.published = r.published, !.writes = d.writes]
            /\ UNCHANGED <<loggers, consumers, channels, born, console>>

(***************************************************************************)
(* The buffered console's steps.                                           *)
(***************************************************************************)
\* the scheduler becomes s, and a flushBuffer that took a queue starts to
\* write it
Become(r, by) ==
    /\ logBuffer' = r.s.logBuffer
    /\ bufferSize' = r.s.bufferSize
    /\ flushScheduled' = r.s.flushScheduled
    /\ flushTimer' = r.s.flushTimer
    /\ immediates' = r.s.immediates
    /\ timers' = r.s.timers
    /\ drains' = IF r.toFlush = <<>> THEN drains
                  ELSE Append(drains, [toFlush |-> r.toFlush, i |-> 1, by |-> by])

\* the message of a call: its text is the number of the call when the calls
\* are numbered, and the same for all otherwise
Message(numbered, length) ==
    [text |-> IF numbered THEN tally.logged + tally.direct + 1 ELSE 0,
     length |-> length]

\* console.log / info / debug (...args) formatting to a message of one of the
\* lengths; reentrant tells whether the stream's write() may make the call
ConsoleLog(budget, lengths, numbered, reentrant) ==
    \E length \in lengths :
        LET message == Message(numbered, length)
            id == tally.armed + 1
            r == log(Scheduler, message, id)
        IN  /\ ~tally.exited
            /\ tally.logged + tally.direct < budget
            /\ drains = <<>> \/ reentrant
            /\ Become(r, "log")
            /\ tally' = [tally EXCEPT
                            !.logged = @ + 1,
                            !.bytes = @ + length,
                            !.texts = Append(@, message.text),
                            !.armed = IF r.s.immediates # immediates THEN id ELSE @,
                            !.flushes = IF r.toFlush # <<>> THEN @ + 1 ELSE @]
            /\ last' = [NoOp EXCEPT !.op = "console.log", !.msgOrObj = message,
                                    !.batch = r.toFlush, !.queued = logBuffer,
                                    !.cycle = IF Truthy(flushTimer)
                                              THEN flushTimer.id ELSE 0]
            /\ UNCHANGED <<logging, stdout, stderr>>

\* console.error / warn (...args) formatting to a message of one of the lengths
ConsoleError(budget, lengths, numbered) ==
    \E length \in lengths, name \in {"error", "warn"} :
        LET message == Message(numbered, length)
            w == IF name = "error" THEN error(message) ELSE warn(message)
        IN  /\ ~tally.exited
            /\ drains = <<>>
            /\ tally.logged + tally.direct < budget
            /\ stderr' = IF w.stream = "_stderr" THEN Append(stderr, w.line) ELSE stderr
            /\ stdout' = IF w.stream = "_stdout" THEN Append(stdout, w.line) ELSE stdout
            /\ tally' = [tally EXCEPT !.direct = @ + 1]
            /\ last' = [NoOp EXCEPT !.op = "console.error", !.name = name,
                                    !.msgOrObj = message, !.writes = <<w>>,
                                    !.queued = logBuffer]
            /\ UNCHANGED <<logging, logBuffer, bufferSize, flushScheduled,
                           flushTimer, immediates, timers, drains>>

\* console.error / warn (value): the message is fastStringify of the one
\* argument
ConsoleErrorValue(budget, values) ==
    \E value \in values, name \in {"error", "warn"} :
        LET r == fastStringify(value)
            message == [text |-> r]
            w == IF name = "error" THEN error(message) ELSE warn(message)
        IN  /\ ~tally.exited
            /\ drains = <<>>
            /\ tally.logged + tally.direct < budget
            /\ stderr' = IF w.stream = "_stderr" THEN Append(stderr, w.line) ELSE stderr
            /\ stdout' = IF w.stream = "_stdout" THEN Append(stdout, w.line) ELSE stdout
            /\ tally' = [tally EXCEPT !.direct = @ + 1]
            /\ last' = [NoOp EXCEPT !.op = "console.error", !.name = name,
                                    !.fields = value, !.msgOrObj = message,
                                    !.writes = <<w>>, !.queued = logBuffer]
            /\ UNCHANGED <<logging, logBuffer, bufferSize, flushScheduled,
                           flushTimer, immediates, timers, drains>>

\* one turn of the loop of the innermost flushBuffer: stream.write of the
\* next entry it took, and its return after the last one
WriteNext ==
    /\ drains # <<>>
    /\ LET top == drains[Len(drains)]
           rest == SubSeq(drains, 1, Len(drains) - 1)
           message == top.toFlush[top.i].message
       IN  /\ stdout' = Append(stdout, Line(message))
           /\ drains' = IF top.i = Len(top.toFlush) THEN rest
                         ELSE Append(rest, [top EXCEPT !.i = @ + 1])
           /\ last' = [NoOp EXCEPT !.op = "write", !.msgOrObj = message,
                                   !.writes = <<[stream |-> "_stdout", line |-> Line(message)]>>,
                                   !.queued = logBuffer]
    /\ UNCHANGED <<logging, logBuffer, bufferSize, flushScheduled, flushTimer,
                   immediates, timers, stderr, tally>>

\* the event loop runs the oldest pending setImmediate(flushBuffer) task;
\* without repeat, only the first task or timer of a run is followed
RunImmediate(repeat) ==
    /\ ~tally.exited
    /\ drains = <<>>
    /\ immediates # <<>>
    /\ repeat \/ tally.fired = 0
    /\ LET r == flushBuffer([Scheduler EXCEPT !.immediates = Tail(@)])
       IN  /\ Become(r, "immediate")
           /\ tally' = [tally EXCEPT !.fired = @ + 1,
                           !.flushes = IF r.toFlush # <<>> THEN @ + 1 ELSE @]
           /\ last' = [NoOp EXCEPT !.op = "immediate", !.trigger = Head(immediates),
                                   !.cycle = IF flushScheduled /\ Truthy(flushTimer)
                                             THEN flushTimer.id ELSE 0,
                                   !.batch = r.toFlush, !.queued = logBuffer]
    /\ UNCHANGED <<logging, stdout, stderr>>

\* the event loop runs the oldest pending setTimeout(flushBuffer) timer
RunTimeout(repeat) ==
    /\ ~tally.exited
    /\ drains = <<>>
    /\ timers # {}
    /\ repeat \/ tally.fired = 0
    /\ LET id == CHOOSE t \in timers : \A u \in timers : t <= u
           r == flushBuffer([Scheduler EXCEPT !.timers = @ \ {id}])
       IN  /\ Become(r, "timeout")
           /\ tally' = [tally EXCEPT !.fired = @ + 1,
                           !.flushes = IF r.toFlush # <<>> THEN @ + 1 ELSE @]
           /\ last' = [NoOp EXCEPT !.op = "timeout", !.trigger = id,
                                   !.cycle = IF flushScheduled /\ Truthy(flushTimer)
                                             THEN flushTimer.id ELSE 0,
                                   !.batch = r.toFlush, !.queued = logBuffer]
    /\ UNCHANGED <<logging, stdout, stderr>>

\* process emits 'exit': the listener flushBuffer runs, and no task or timer
\* runs after it
Exit ==
    /\ ~tally.exited
    /\ drains = <<>>
    /\ LET r == flushBuffer(Scheduler)
       IN  /\ Become(r, "exit")
           /\ tally' = [tally EXCEPT !.exited = TRUE,
                           !.flushes = IF r.toFlush # <<>> THEN @ + 1 ELSE @]
           /\ last' = [NoOp EXCEPT !.op = "exit", !.batch = r.toFlush,
                                   !.queued = logBuffer]
    /\ UNCHANGED <<logging, stdout, stderr>>

(***************************************************************************)
(* Inputs.                                                                 *)
(***************************************************************************)
\* level options: absent, not a string, the six names, and strings that are
\* no level name ("toString" names a property of Object.prototype)
LevelOptions ==
    {Undefined, Num(5), Str(""), Str("toString"), Str("verbose")}
        \cup {Str(name) : name \in LevelSet}

ConsumerLevels == {Undefined, Str("trace"), Str("fatal")}

BindingOptions ==
    {Undefined, Obj([a |-> Num(2), b |-> Num(1)]), Obj([level |-> Str("loud")])}

FieldOptions ==
    {Undefined, Obj([a |-> Num(1)]), Obj([msg |-> Str("static")])}

\* the level options of the loggers that log: absent, not a string, one level
\* name, and strings that are no level name
LoggerLevels == {Undefined, Num(5), Str("error"), Str("toString"), Str("verbose")}

\* arguments (msgOrObj, fields) of a log method: a string alone, and a map
\* without msg
PlainCalls == {<<Str("hello"), Undefined>>, <<Obj([a |-> Num(3)]), Undefined>>}

\* arguments (msgOrObj, fields) of the three input shapes: a string alone,
\* with a map, with a map that holds msg, with a string; a map with msg and
\* one without; an Error with a map
ShapedCalls ==
    {<<Str("hello"), Undefined>>,
     <<Str("hello"), Obj([a |-> Num(3)])>>,
     <<Str("hello"), Obj([msg |-> Str("other")])>>,
     <<Str("hello"), Str("x")>>,
     <<Obj([msg |-> Str("hi"), a |-> Num(3)]), Undefined>>,
     <<Obj([a |-> Num(3)]), Undefined>>,
     <<Err(1), Obj([a |-> Num(3)])>>}

(***************************************************************************)
(* Spec: level filtering and dispatch.  Loggers and consumers of several   *)
(* levels, log calls on every method with a valid and an invalid argument. *)
(***************************************************************************)
Next ==
    \/ NewLogger(MaxObjects, LoggerLevels, {Undefined})
    \/ NewJSONConsumer(MaxObjects, ConsumerLevels, {Undefined}, {Undefined})
    \/ Attach(MaxOps)
    \/ LogCall(MaxOps, LevelSet, PlainCalls, {1000})

Spec == Init /\ [][Next]_vars

(***************************************************************************)
(* SpecCtor: construction.  Loggers, children and consumers made with      *)
(* every level option.                                                     *)
(***************************************************************************)
NextCtor ==
    \/ NewLogger(MaxObjects, LevelOptions, {Undefined})
    \/ NewChild(MaxObjects, {kEmptyObject}, LevelOptions)
    \/ NewJSONConsumer(MaxObjects, LevelOptions, {Undefined}, {Undefined})

SpecCtor == Init /\ [][NextCtor]_vars

(***************************************************************************)
(* SpecFields: record production and the consumer's field merge.  Loggers  *)
(* of the default level with bindings, consumers with static fields, calls *)
(* of error() with the three input shapes, with and without fields.        *)
(***************************************************************************)
NextFields ==
    \/ NewLogger(MaxObjects, {Undefined}, BindingOptions)
    \/ NewJSONConsumer(MaxObjects, {Undefined}, {Undefined}, FieldOptions)
    \/ Attach(MaxOps)
    \/ LogCall(MaxOps, {"error"}, ShapedCalls, {1000})

SpecFields == Init /\ [][NextFields]_vars

(***************************************************************************)
(* SpecChild: child loggers.  A root logger with bindings, children and    *)
(* grandchildren made with bindings that add and redefine keys, a          *)
(* consumer, calls of info().                                              *)
(***************************************************************************)
RootBindings == {Obj([svc |-> Str("api"), x |-> Num(0)])}

ChildBindings == {Obj([x |-> Num(1)]), Obj([x |-> Num(2), req |-> Str("1")])}

HelloCalls == {<<Str("hello"), Undefined>>}

NextChild ==
    \/ NewLogger(MaxFamily, {Undefined}, RootBindings)
    \/ NewChild(MaxFamily, ChildBindings, {Undefined})
    \/ NewJSONConsumer(MaxFamily, {Undefined}, {Undefined}, {Undefined})
    \/ Attach(MaxOps)
    \/ LogCall(MaxOps, {"info"}, HelloCalls, {1000})

SpecChild == Init /\ [][NextChild]_vars

(***************************************************************************)
(* SpecArgs: the argument checks of a log call.  One default logger and    *)
(* consumer, info() called with a fields argument that is no map after     *)
(* each of the three shapes, and with maps whose msg is absent or a number.*)
(***************************************************************************)
ArgCalls ==
    {<<Str("hello"), Undefined>>,
     <<Str("hello"), Num(5)>>,
     <<Obj([msg |-> Str("hi")]), Str("x")>>,
     <<Err(1), Str("x")>>,
     <<Obj([a |-> Num(3)]), Undefined>>,
     <<Obj([msg |-> Num(5)]), Undefined>>}

NextArgs ==
    \/ NewLogger(MaxObjects, {Undefined, Str("error")}, {Undefined})
    \/ NewJSONConsumer(MaxObjects, {Undefined}, {Undefined}, {Undefined})
    \/ Attach(MaxOps)
    \/ LogCall(MaxOps, {"info"}, ArgCalls, {1000})

SpecArgs == Init /\ [][NextArgs]_vars

(***************************************************************************)
(* SpecErr: Errors in log calls.  One default logger and consumer, error() *)
(* called with an Error first (alone, with a map, with a map that holds    *)
(* err), with an Error under err of a map and of the fields, and with      *)
(* Errors whose cause chains end, return to themselves, or close a cycle   *)
(* of two or three.                                                        *)
(***************************************************************************)
ErrCalls ==
    {<<Err(1), Undefined>>,
     <<Err(2), Obj([a |-> Num(3)])>>,
     <<Err(1), Obj([err |-> Str("mine")])>>,
     <<Err(4), Undefined>>,
     <<Err(5), Undefined>>,
     <<Err(8), Undefined>>,
     <<Obj([msg |-> Str("hi"), err |-> Err(3)]), Undefined>>,
     <<Str("hello"), Obj([err |-> Err(1)])>>}

NextErr ==
    \/ NewLogger(MaxObjects, {Undefined}, {Undefined})
    \/ NewJSONConsumer(MaxObjects, {Undefined}, {Undefined}, {Undefined})
    \/ Attach(MaxOps)
    \/ LogCall(MaxOps, {"error"}, ErrCalls, {1000})

SpecErr == Init /\ [][NextErr]_vars

(***************************************************************************)
(* SpecReserved: Errors whose enumerable properties meet the keys the      *)
(* serializer sets itself: an enumerable code, an enumerable cause that is *)
(* the Error itself, falsy values under message, name, code and cause, and *)
(* an own property named as a property of Object.prototype.                *)
(***************************************************************************)
ReservedCalls ==
    {<<Err(2), Undefined>>,
     <<Err(3), Undefined>>,
     <<Err(4), Undefined>>,
     <<Err(10), Undefined>>,
     <<Err(11), Undefined>>,
     <<Err(12), Undefined>>,
     <<Obj([msg |-> Str("hi"), err |-> Err(10)]), Undefined>>}

NextReserved ==
    \/ NewLogger(MaxObjects, {Undefined}, {Undefined})
    \/ NewJSONConsumer(MaxObjects, {Undefined}, {Undefined}, {Undefined})
    \/ Attach(MaxOps)
    \/ LogCall(MaxOps, {"error"}, ReservedCalls, {1000})

SpecReserved == Init /\ [][NextReserved]_vars

(***************************************************************************)
(* SpecFanout: several consumers on one channel.  One default logger,      *)
(* consumers of the levels info and error, each with a stream of its own,  *)
(* and calls of info() and error().                                        *)
(***************************************************************************)
NextFanout ==
    \/ NewLogger(MaxFamily, {Undefined}, {Undefined})
    \/ NewJSONConsumer(MaxFamily, {Undefined, Str("error")}, {Undefined}, {Undefined})
    \/ Attach(MaxRounds)
    \/ LogCall(MaxRounds, {"info", "error"}, HelloCalls, {1000})

SpecFanout == Init /\ [][NextFanout]_vars

(***************************************************************************)
(* SpecEnd: consumers that are ended.  Default loggers and consumers,      *)
(* attach(), end() and calls of info().                                    *)
(***************************************************************************)
NextEnd ==
    \/ NewLogger(MaxObjects, {Undefined}, {Undefined})
    \/ NewJSONConsumer(MaxObjects, {Undefined, Str("error")}, {Undefined}, {Undefined})
    \/ Attach(MaxOps)
    \/ End
    \/ LogCall(MaxOps, {"info", "error"}, HelloCalls, {1000})

SpecEnd == Init /\ [][NextEnd]_vars

(***************************************************************************)
(* SpecAbstract: handle() called directly, on consumers of the base class  *)
(* and on JSON consumers.                                                  *)
(***************************************************************************)
HandledRecords ==
    {[level |-> Str("info"), msg |-> Str("hello"), time |-> Num(1000),
      bindings |-> kEmptyObject, fields |-> kEmptyObject],
     [level |-> Str("error"), msg |-> Str("bye"), time |-> Num(1000),
      bindings |-> kEmptyObject, fields |-> Obj([a |-> Num(3)])]}

NextAbstract ==
    \/ NewLogConsumer(MaxObjects, {Undefined, Str("error"), Str("verbose")})
    \/ NewJSONConsumer(MaxObjects, {Undefined}, {Undefined}, {Undefined})
    \/ HandleCall(MaxOps, HandledRecords)

SpecAbstract == Init /\ [][NextAbstract]_vars

(***************************************************************************)
(* SpecHandle: handle() called directly on JSON consumers of several       *)
(* thresholds, with records of levels below and above them.                *)
(***************************************************************************)
DirectRecords ==
    HandledRecords \cup
    {[level |-> Str("trace"), msg |-> Str("low"), time |-> Num(1000),
      bindings |-> Obj([svc |-> Str("api")]), fields |-> kEmptyObject]}

NextHandle ==
    \/ NewJSONConsumer(MaxObjects, {Undefined, Str("fatal")}, {Undefined},
                       {Obj([a |-> Num(1)])})
    \/ HandleCall(MaxOps, DirectRecords)

SpecHandle == Init /\ [][NextHandle]_vars

(***************************************************************************)
(* SpecStream: JSON consumers made with a stream option: absent, the       *)
(* descriptors 0, 1 and 2, a path, the empty string, booleans and a map.   *)
(***************************************************************************)
StreamOptions ==
    {Undefined, Num(0), Num(1), Num(2), Str("/tmp/app.log"), Str(""),
     [t |-> "boolean", b |-> FALSE], [t |-> "boolean", b |-> TRUE], kEmptyObject}

NextStream ==
    \/ NewLogger(MaxObjects, {Undefined}, {Undefined})
    \/ NewJSONConsumer(MaxObjects, {Undefined}, StreamOptions, {Undefined})
    \/ Attach(MaxOps)
    \/ LogCall(MaxOps, {"error"}, HelloCalls, {1000})

SpecStream == Init /\ [][NextStream]_vars

(***************************************************************************)
(* SpecSched: the buffered console.  Numbered messages of one byte, of one *)
(* byte less than the size threshold and of the threshold itself, written  *)
(* by log() and by error() and warn(); the pending tasks and timers run in *)
(* any order, and the process exits at any moment.                         *)
(***************************************************************************)
MessageLengths == {1, kBufferFlushThreshold - 1, kBufferFlushThreshold}

NextSched ==
    \/ ConsoleLog(MaxPrints, MessageLengths, TRUE, FALSE)
    \/ ConsoleError(MaxPrints, {1}, TRUE)
    \/ WriteNext
    \/ RunImmediate(TRUE)
    \/ RunTimeout(TRUE)
    \/ Exit

SpecSched == Init /\ [][NextSched]_vars

(***************************************************************************)
(* SpecBurst: the queue fills.  Messages of one byte, as many as it takes  *)
(* to cross the count threshold, after first calls that may log a message  *)
(* one byte short of the size threshold, and one task or timer run in      *)
(* between.                                                                *)
(***************************************************************************)
NextBurst ==
    \/ ConsoleLog(MaxBurst, {1}, FALSE, FALSE)
    \/ ConsoleLog(MaxLarge, {kBufferFlushThreshold - 1}, FALSE, FALSE)
    \/ WriteNext
    \/ RunImmediate(FALSE)
    \/ RunTimeout(FALSE)

SpecBurst == Init /\ [][NextBurst]_vars

(***************************************************************************)
(* SpecDrain: a stream whose write() logs.  As SpecSched, and log() may be *)
(* called while a flush is writing.                                        *)
(***************************************************************************)
NextDrain ==
    \/ ConsoleLog(MaxPrints, {1, kBufferFlushThreshold}, TRUE, TRUE)
    \/ WriteNext
    \/ RunImmediate(TRUE)
    \/ RunTimeout(TRUE)

SpecDrain == Init /\ [][NextDrain]_vars

(***************************************************************************)
(* SpecFormat: the text of one argument.  error() and warn() called with   *)
(* primitives, plain containers, containers that hold a function, an       *)
(* instance of a class or a reference to themselves, and an instance.      *)
(***************************************************************************)
PrintedValues ==
    {Null, Str("hi"), Num(7), Bool(FALSE),
     Obj([a |-> Num(1), b |-> Arr(<<Str("x"), Null>>)]),
     Arr(<<Num(1), Obj([a |-> Bool(TRUE)])>>),
     Obj([a |-> Num(1), f |-> Fn]),
     Arr(<<Obj([p |-> Instance([x |-> Num(1)])])>>),
     Obj([a |-> Obj([self |-> Cyclic])]),
     Instance([x |-> Num(1)]),
     Fn}

NextFormat ==
    \/ ConsoleErrorValue(MaxOps, PrintedValues)

SpecFormat == Init /\ [][NextFormat]_vars

(***************************************************************************)
(* SpecSnapshot: the bindings a logger keeps.  Roots with and without      *)
(* bindings, children, a consumer, calls of info(), and the caller         *)
(* assigning to the map it passed as options.bindings.                     *)
(***************************************************************************)
NextSnapshot ==
    \/ NewLogger(MaxFamily, {Undefined}, RootBindings \cup {Undefined})
    \/ NewChild(MaxFamily, {Obj([x |-> Num(1)])}, {Undefined})
    \/ NewJSONConsumer(MaxFamily, {Undefined}, {Undefined}, {Undefined})
    \/ Attach(MaxOps)
    \/ LogCall(MaxOps, {"info"}, HelloCalls, {1000})
    \/ MutateBindings({[svc |-> Str("other")]})

SpecSnapshot == Init /\ [][NextSnapshot]_vars

(***************************************************************************)
(* Vocabulary of the properties.                                           *)
(***************************************************************************)
\* weight(L) >= weight(threshold of lg), for a threshold that has a weight
WeightEnabled(lg, L) ==
    lg._level \in LevelSet /\ LevelWeight(L) >= LevelWeight(lg._level)

\* weight(L) < weight(threshold of lg)
WeightDisabled(lg, L) ==
    lg._level \in LevelSet /\ LevelWeight(L) < LevelWeight(lg._level)

\* the three accepted input shapes, with a fields argument that is a map or absent
ValidCall(msgOrObj, fields) ==
    \/ msgOrObj.t = "string" /\ fields.t \in {"undefined", "object"}
    \/ msgOrObj.t = "object" /\ "msg" \in DOMAIN msgOrObj.m
         /\ msgOrObj.m["msg"].t = "string"
    \/ msgOrObj.t = "error" /\ fields.t \in {"undefined", "object"}

\* the message of a valid call
CallMessage(msgOrObj) ==
    CASE msgOrObj.t = "string" -> msgOrObj
      [] msgOrObj.t = "object" -> msgOrObj.m["msg"]
      [] msgOrObj.t = "error" -> ErrorPool(msgOrObj.id).own.message

\* the keys a valid call gives as fields, besides msg of a map and err of an Error
CallFieldKeys(msgOrObj, fields) ==
    CASE msgOrObj.t = "object" -> (DOMAIN msgOrObj.m) \ {"msg"}
      [] fields.t = "object" -> DOMAIN fields.m
      [] OTHER -> {}

CallField(msgOrObj, fields, key) ==
    IF msgOrObj.t = "object" THEN msgOrObj.m[key] ELSE fields.m[key]

\* consumers that have called attach()
Attached == {channels["fatal"][i] : i \in DOMAIN channels["fatal"]}

\* the writes consumer c made during the last call
WritesOf(c) == {i \in DOMAIN last.writes : last.writes[i].consumer = c}

LastLogger == loggers[last.logger]

\* C1: a call of the method of a level whose weight is below the logger's
\* threshold publishes nothing, writes nothing and throws nothing, whatever
\* the arguments and whatever consumers are attached.
C1_DisabledLevelSilent ==
    (last.op = "log" /\ WeightDisabled(LastLogger, last.name))
        => /\ last.published = <<>>
           /\ last.writes = <<>>
           /\ last.err = ""

\* a disabled method was called with an invalid argument while a consumer was
\* subscribed to the channel of its level
C1_Witness ==
    /\ last.op = "log"
    /\ WeightDisabled(LastLogger, last.name)
    /\ last.subscribers # <<>>
    /\ ~ValidCall(last.msgOrObj, last.fields)

\* C2: a valid call at an enabled level makes every attached consumer whose
\* threshold is at or below the level write exactly one newline-terminated
\* line: never zero, never two.
C2_ExactlyOneLine ==
    (last.op = "log" /\ WeightEnabled(LastLogger, last.name)
        /\ ValidCall(last.msgOrObj, last.fields))
        => \A c \in Attached :
              LevelWeight(consumers[c]._level) <= LevelWeight(last.name)
                 => /\ Cardinality(WritesOf(c)) = 1
                    /\ \A i \in WritesOf(c) : last.writes[i].data.eol = "\n"

\* C3 as claimed: whatever the call fields, bindings and static fields, the
\* line has level = the method's name and msg = the message of the call.
C3_LevelAndMsgOfCall ==
    (last.op = "log" /\ ValidCall(last.msgOrObj, last.fields))
        => \A i \in DOMAIN last.writes :
              /\ last.writes[i].data.json.m["level"] = Str(last.name)
              /\ last.writes[i].data.json.m["msg"] = CallMessage(last.msgOrObj)

\* the value the line carries under a reserved key: that of the last of static
\* fields, bindings, call fields that has the key, else the call's own
Overridden(c, key, own) ==
    IF key \in CallFieldKeys(last.msgOrObj, last.fields)
    THEN CallField(last.msgOrObj, last.fields, key)
    ELSE IF key \in DOMAIN LastLogger._bindings THEN LastLogger._bindings[key]
    ELSE IF key \in DOMAIN consumers[c]._fields THEN consumers[c]._fields[key]
    ELSE own

\* C3 as amended: level is the method's name and msg the call's message unless
\* static fields, bindings or call fields hold the key; then the line carries
\* the value of the last of these sources that holds it.
C3_LevelAndMsgUnlessOverridden ==
    (last.op = "log" /\ ValidCall(last.msgOrObj, last.fields))
        => \A i \in DOMAIN last.writes :
              LET w == last.writes[i]
              IN  /\ w.data.json.m["level"] = Overridden(w.consumer, "level", Str(last.name))
                  /\ w.data.json.m["msg"] =
                        Overridden(w.consumer, "msg", CallMessage(last.msgOrObj))

\* an Error was logged with a fields map by a logger with bindings to a consumer
\* with static fields, and the line carries the method's name and the Error's
\* message
C3_Witness ==
    /\ last.op = "log"
    /\ last.msgOrObj.t = "error"
    /\ last.fields.t = "object"
    /\ DOMAIN LastLogger._bindings # {}
    /\ \E i \in DOMAIN last.writes :
          /\ DOMAIN consumers[last.writes[i].consumer]._fields # {}
          /\ last.writes[i].data.json.m["level"] = Str(last.name)
          /\ last.writes[i].data.json.m["msg"] = CallMessage(last.msgOrObj)

\* C4: the fields of every published record lack the key "msg", for each of
\* the three input shapes.
C4_FieldsLackMsg ==
    last.op = "log"
        => \A i \in DOMAIN last.published : "msg" \notin DOMAIN last.published[i].fields.m

\* the value a line carries under a key by the documented precedence: that of
\* the record's fields, else of its bindings, else of the consumer's static
\* fields, else the record's own level, time or msg
PrecedenceValue(c, record, key) ==
    IF key \in DOMAIN record.fields.m THEN record.fields.m[key]
    ELSE IF key \in DOMAIN record.bindings.m THEN record.bindings.m[key]
    ELSE IF key \in DOMAIN consumers[c]._fields THEN consumers[c]._fields[key]
    ELSE record[key]

\* C5: the line JSONConsumer.handle writes holds the keys level, time, msg
\* and every key of the static fields, the bindings and the record's fields,
\* each with the value of the last of these sources that has it; static
\* fields {a:1}, bindings {a:2,b:1} and call fields {a:3} give a:3 and b:1.
C5_MergePrecedence ==
    last.op = "log"
        => \A i \in DOMAIN last.writes :
              LET c == last.writes[i].consumer
                  record == last.published[1]
                  line == last.writes[i].data.json.m
              IN  /\ DOMAIN line = {"level", "time", "msg"}
                                      \cup DOMAIN consumers[c]._fields
                                      \cup DOMAIN record.bindings.m
                                      \cup DOMAIN record.fields.m
                  /\ \A key \in DOMAIN line :
                        line[key] = PrecedenceValue(c, record, key)
                  /\ (/\ consumers[c]._fields = [a |-> Num(1)]
                      /\ record.bindings.m = [a |-> Num(2), b |-> Num(1)]
                      /\ record.fields.m = [a |-> Num(3)])
                        => line["a"] = Num(3) /\ line["b"] = Num(1)

\* a consumer with static fields {a:1} wrote the line of a call with fields
\* {a:3} made on a logger with bindings {a:2,b:1}
C5_Witness ==
    /\ last.op = "log"
    /\ \E i \in DOMAIN last.writes :
          /\ consumers[last.writes[i].consumer]._fields = [a |-> Num(1)]
          /\ last.published[1].bindings.m = [a |-> Num(2), b |-> Num(1)]
          /\ last.published[1].fields.m = [a |-> Num(3)]
          /\ last.writes[i].data.json.m["a"] = Num(3)
          /\ last.writes[i].data.json.m["b"] = Num(1)

\* C6: a valid call at an enabled level whose channel has no subscriber
\* publishes nothing, writes nothing and throws nothing, and no sink ever
\* holds a line of a call dropped that way, whoever attaches later.
C6_DroppedSilently ==
    /\ (last.op = "log" /\ last.subscribers = <<>>
           /\ WeightEnabled(LastLogger, last.name)
           /\ ValidCall(last.msgOrObj, last.fields))
          => /\ last.err = ""
             /\ last.published = <<>>
             /\ last.writes = <<>>
             /\ ncalls \in dropped
    /\ \A s \in DOMAIN sinks : \A i \in DOMAIN sinks[s].lines :
          sinks[s].lines[i].call \notin dropped

\* a call was dropped for want of a subscriber, a consumer attached after it,
\* and a later call was written to the consumer's sink
C6_Witness ==
    /\ last.op = "log"
    /\ last.writes # <<>>
    /\ \E d \in dropped : d < ncalls
    /\ \A s \in DOMAIN sinks : \A i \in DOMAIN sinks[s].lines :
          sinks[s].lines[i].call \notin dropped

\* C7: constructing a Logger or a consumer with a string that is none of the
\* six level names throws the invalid-level error and makes no object.
C7_UnknownLevelRejected ==
    (last.op \in {"Logger", "JSONConsumer"} /\ last.level.t = "string"
        /\ last.level.s \notin LevelSet)
        => last.err = "ERR_INVALID_ARG_VALUE" /\ last.created = 0

\* C8: for every logger and each of the six levels, enabled(L) is true exactly
\* when weight(L) >= weight(threshold), and the method of L publishes a record
\* only if enabled(L), and does publish one when enabled(L), the input is
\* valid and the channel has a subscriber.
C8_EnabledIsWeightAndDispatch ==
    /\ \A i \in DOMAIN loggers : \A L \in LevelSet :
          enabled(loggers[i], L) <=> WeightEnabled(loggers[i], L)
    /\ (last.op = "log" /\ last.published # <<>>) => enabled(LastLogger, last.name)
    /\ (last.op = "log" /\ enabled(LastLogger, last.name)
           /\ ValidCall(last.msgOrObj, last.fields) /\ last.subscribers # <<>>)
          => last.published # <<>>

\* C9: a child() that returns gives a new logger, distinct from the parent,
\* whose threshold is options.level when given and the parent's otherwise, and
\* leaves the parent's threshold and enabled set as they were.
C9_ChildThreshold ==
    [][(last'.op = "child" /\ last'.err = "")
         => LET p == last'.logger
                n == last'.created
            IN  /\ n = Len(loggers) + 1
                /\ n # p
                /\ loggers'[n]._level = IF IsUndefined(last'.level)
                                          THEN loggers[p]._level
                                          ELSE last'.level.s
                /\ loggers'[p]._level = loggers[p]._level
                /\ \A L \in LevelSet :
                      /\ enabled(loggers'[p], L) = enabled(loggers[p], L)
                      /\ loggers'[p].methods[L] = loggers[p].methods[L]]_vars

\* C10: child() with an options.level that is given and is none of the six
\* level names throws (the invalid-level error when it is a string) and
\* returns no logger.
C10_ChildRejectsUnknownLevel ==
    (last.op = "child" /\ ~IsUndefined(last.level)
        /\ ~(last.level.t = "string" /\ last.level.s \in LevelSet))
        => /\ last.created = 0
           /\ last.err # ""
           /\ last.level.t = "string" => last.err = "ERR_INVALID_ARG_VALUE"

\* the ancestors of logger i, itself included
RECURSIVE Lineage(_)
Lineage(i) == IF born[i].parent = 0 THEN {i} ELSE {i} \cup Lineage(born[i].parent)

\* the keys passed as bindings to logger i or to an ancestor of it
InheritedKeys(i) ==
    UNION {DOMAIN born[j].args.m : j \in {a \in Lineage(i) : born[a].args.t = "object"}}

\* the value of a key at logger i: the one passed to the nearest of i and its
\* ancestors that was given the key
RECURSIVE NearestValue(_, _)
NearestValue(i, key) ==
    IF born[i].args.t = "object" /\ key \in DOMAIN born[i].args.m
    THEN born[i].args.m[key]
    ELSE NearestValue(born[i].parent, key)

\* C11: the bindings of every logger, at any depth of child() calls, hold
\* every key passed to it or to an ancestor, with the value passed nearest to
\* it (the child's value wins on a shared key), and a record it publishes
\* carries exactly these bindings.
C11_ChildBindingsMerge ==
    /\ \A i \in DOMAIN loggers :
          /\ DOMAIN loggers[i]._bindings = InheritedKeys(i)
          /\ \A key \in InheritedKeys(i) :
                loggers[i]._bindings[key] = NearestValue(i, key)
    /\ (last.op = "log" /\ last.published # <<>>)
          => /\ DOMAIN last.published[1].bindings.m = InheritedKeys(last.logger)
             /\ \A key \in InheritedKeys(last.logger) :
                   last.published[1].bindings.m[key] = NearestValue(last.logger, key)

\* a grandchild logged a record that a consumer wrote, carrying svc of the
\* root, req of the child and its own x, which redefines the child's and the
\* root's
C11_Witness ==
    /\ last.op = "log"
    /\ last.writes # <<>>
    /\ born[last.logger].parent # 0
    /\ born[born[last.logger].parent].parent # 0
    /\ last.published[1].bindings.m =
          [svc |-> Str("api"), req |-> Str("1"), x |-> Num(1)]
    /\ last.writes[1].data.json.m["x"] = Num(1)
    /\ last.writes[1].data.json.m["req"] = Str("1")
    /\ last.writes[1].data.json.m["svc"] = Str("api")

\* the children of logger p made with the bindings argument args
ChildrenWith(p, args) ==
    {i \in DOMAIN born : born[i].parent = p /\ born[i].args = args}

\* C12: no child() and no log call changes the bindings of an existing
\* logger: every logger holds, and every record carries, the bindings the
\* logger was constructed with; with A = parent.child({x:1}) and
\* B = parent.child({x:2,...}), A keeps x = 1, B has x = 2 and the parent
\* keeps its own x.
C12_ChildIsolation ==
    /\ \A i \in DOMAIN loggers : loggers[i]._bindings = born[i].bindings
    /\ (last.op = "log" /\ last.published # <<>>)
          => last.published[1].bindings.m = born[last.logger].bindings
    /\ \A p \in DOMAIN loggers :
          \A a \in ChildrenWith(p, Obj([x |-> Num(1)])) :
             \A b \in ChildrenWith(p, Obj([x |-> Num(2), req |-> Str("1")])) :
                /\ loggers[a]._bindings["x"] = Num(1)
                /\ "req" \in DOMAIN loggers[a]._bindings
                      <=> "req" \in DOMAIN born[p].bindings
                /\ loggers[b]._bindings["x"] = Num(2)
                /\ loggers[p]._bindings = born[p].bindings

\* A = parent.child({x:1}) was made before B = parent.child({x:2,...}), and A
\* then logged a record that a consumer wrote with x = 1 and without req
C12_Witness ==
    /\ last.op = "log"
    /\ last.writes # <<>>
    /\ born[last.logger].parent # 0
    /\ born[last.logger].args = Obj([x |-> Num(1)])
    /\ \E b \in ChildrenWith(born[last.logger].parent,
                               Obj([x |-> Num(2), req |-> Str("1")])) :
          b > last.logger
    /\ last.writes[1].data.json.m["x"] = Num(1)
    /\ "req" \notin DOMAIN last.writes[1].data.json.m

\* C13: every record a logger publishes carries exactly the bindings the
\* logger had when it was constructed, whatever happened in between.
C13_BindingsSnapshot ==
    (last.op = "log" /\ last.published # <<>>)
        => last.published[1].bindings.m = born[last.logger].bindings

\* C14: at an enabled level, a call whose fields argument is present and is
\* not a map throws the invalid-argument error and publishes nothing, whether
\* the first argument is a string, a map or an Error.
C14_NonMapFieldsRejected ==
    (last.op = "log" /\ WeightEnabled(LastLogger, last.name)
        /\ last.msgOrObj.t \in {"string", "object", "error"}
        /\ last.fields.t \notin {"undefined", "object"})
        => /\ last.err = "ERR_INVALID_ARG_TYPE"
           /\ last.published = <<>>

\* C15: at an enabled level, a call with a map whose msg is absent or is not a
\* string throws the invalid-argument error from the call itself, with and
\* without subscribers on the channel, and that call publishes no record and
\* adds no line to any sink.
C15_MapWithoutMsgRejected ==
    (last.op = "log" /\ WeightEnabled(LastLogger, last.name)
        /\ last.msgOrObj.t = "object"
        /\ Get(last.msgOrObj.m, "msg").t # "string")
        => /\ last.err = "ERR_INVALID_ARG_TYPE"
           /\ last.published = <<>>
           /\ last.writes = <<>>
           /\ \A s \in DOMAIN sinks : \A i \in DOMAIN sinks[s].lines :
                  sinks[s].lines[i].call # ncalls

\* the second call of a run logs a map whose msg is a number on a channel with
\* no subscriber, and is refused
C15_Witness ==
    /\ last.op = "log"
    /\ WeightEnabled(LastLogger, last.name)
    /\ last.msgOrObj = Obj([msg |-> Num(5)])
    /\ last.subscribers = <<>>
    /\ last.err = "ERR_INVALID_ARG_TYPE"
    /\ ncalls = 2

\* C16: at an enabled level with a subscriber, a call whose first argument is
\* an Error e, alone or followed by a fields map, publishes a record whose msg
\* is e.message and whose fields.err is the serialized form of e.
C16_ErrorInputRecord ==
    (last.op = "log" /\ last.published # <<>>
        /\ last.msgOrObj.t = "error"
        /\ last.fields.t \in {"undefined", "object"})
        => /\ last.published[1].msg = ErrGet(last.msgOrObj.id, "message")
           /\ Get(last.published[1].fields.m, "err")
                 = _serializeError(last.msgOrObj.id, {})

\* the Error-like value a call gives under the key err of its fields: of the
\* map for a map with msg, of the fields for a string
CallErr ==
    CASE last.msgOrObj.t = "object" -> Get(last.msgOrObj.m, "err")
      [] last.msgOrObj.t = "string" /\ last.fields.t = "object" ->
           Get(last.fields.m, "err")
      [] OTHER -> Undefined

\* C17: a published call whose fields hold an Error under err, given in a map
\* with msg or in the fields map after a string, carries under fields.err of
\* the record the serialized form of that Error, never the Error itself.
C17_FieldErrSerialized ==
    (last.op = "log" /\ last.published # <<>> /\ CallErr.t = "error")
        => /\ Get(last.published[1].fields.m, "err").t # "error"
           /\ Get(last.published[1].fields.m, "err")
                 = _serializeError(CallErr.id, {})

\* the Errors reached from id by following cause, in order, up to the first
\* revisit or the first cause that is no Error
RECURSIVE CauseChain(_, _)
CauseChain(id, path) ==
    LET cause == ErrGet(id, "cause")
        here == Append(path, id)
    IN  IF cause.t = "error" /\ \A i \in DOMAIN here : here[i] # cause.id
        THEN CauseChain(cause.id, here)
        ELSE here

\* the value found after following cause n times in a serialized form
RECURSIVE UnderCause(_, _)
UnderCause(value, n) ==
    IF n = 0 THEN value
    ELSE IF value.t = "object" THEN UnderCause(Get(value.m, "cause"), n - 1)
    ELSE Undefined

\* a published call that handed an Error to _serializeError: first
\* argument, or err of a map with msg
CallSerialized ==
    CASE last.op # "log" \/ last.published = <<>> -> Undefined
      [] last.msgOrObj.t = "error"
           /\ "err" \notin DOMAIN Spread(last.fields) -> last.msgOrObj
      [] last.msgOrObj.t = "object" /\ Get(last.msgOrObj.m, "err").t = "error" ->
           last.msgOrObj.m["err"]
      [] OTHER -> Undefined

\* C18: the serialized form of an Error holds each distinct Error of its
\* cause chain once, nested under cause in chain order, and where the chain
\* returns to an Error already on it the marker '[Circular]' stands instead
\* of a further level; this for a self-cause and for cycles of two and three.
C18_CyclicCauseTerminates ==
    CallSerialized.t = "error" =>
        LET chain == CauseChain(CallSerialized.id, <<>>)
            form == last.published[1].fields.m["err"]
            after == ErrGet(chain[Len(chain)], "cause")
        IN  /\ \A n \in DOMAIN chain :
                  /\ UnderCause(form, n - 1).t = "object"
                  /\ UnderCause(form, n - 1).m["message"] = ErrGet(chain[n], "message")
                  /\ UnderCause(form, n - 1).m["stack"] = ErrGet(chain[n], "stack")
            /\ UnderCause(form, Len(chain)) =
                  IF after.t = "error" THEN Str("[Circular]") ELSE after

\* an Error on a cycle of three causes was logged and written: three levels
\* and then the marker
C18_Witness ==
    /\ CallSerialized = Err(5)
    /\ last.writes # <<>>
    /\ CauseChain(5, <<>>) = <<5, 6, 7>>
    /\ UnderCause(last.published[1].fields.m["err"], 2).m["message"] = Str("seven")
    /\ UnderCause(last.published[1].fields.m["err"], 3) = Str("[Circular]")

\* C19: a published call is handled by every callback on the channel of its
\* level, in the order of the subscriptions, and every one of them has written
\* its line when the call returns; so the lines of each sink stand in the
\* order of the log calls.
C19_SynchronousFanout ==
    /\ (last.op = "log" /\ last.published # <<>>)
          => /\ [i \in DOMAIN last.writes |-> last.writes[i].consumer]
                   = last.subscribers
             /\ \A i \in DOMAIN last.writes :
                   LET w == last.writes[i]
                   IN  /\ w.data = handle(consumers[w.consumer], last.published[1])
                       /\ \E n \in DOMAIN sinks[w.sink].lines :
                              sinks[w.sink].lines[n] = [data |-> w.data, call |-> ncalls]
    /\ \A s \in DOMAIN sinks : \A i, j \in DOMAIN sinks[s].lines :
          i < j => sinks[s].lines[i].call <= sinks[s].lines[j].call

\* the second call was handled by two consumers, the one that subscribed
\* first writing first, and one of their sinks holds the lines of both calls
C19_Witness ==
    /\ last.op = "log"
    /\ ncalls = 2
    /\ Len(last.subscribers) = 2
    /\ last.subscribers[1] # last.subscribers[2]
    /\ Len(last.writes) = 2
    /\ last.writes[1].consumer = last.subscribers[1]
    /\ \E s \in DOMAIN sinks :
          /\ Len(sinks[s].lines) = 2
          /\ sinks[s].lines[1].call = 1
          /\ sinks[s].lines[2].call = 2

\* the number of callbacks of consumer c on the channel of a level
Callbacks(c, level) ==
    Cardinality({i \in DOMAIN channels[level] : channels[level][i] = c})

\* C20: whatever attach() calls were made, every consumer that has attached
\* has exactly one callback on the channel of each level at or above its
\* threshold and none below, and no call is written twice by one consumer.
C20_SubscribedOnce ==
    /\ \A c \in Attached : \A level \in LevelSet :
          Callbacks(c, level) =
              IF LevelWeight(level) >= LevelWeight(consumers[c]._level) THEN 1 ELSE 0
    /\ last.op = "log" => \A c \in DOMAIN consumers : Cardinality(WritesOf(c)) <= 1

\* the consumers on which end() has been called
Ended == {c \in DOMAIN consumers : sinks[consumers[c]._stream].ended}

\* C21: once end() has been called on a consumer, no channel holds a callback
\* of it, and no later log call is handled by it or written to its sink.
C21_EndDetaches ==
    \A c \in Ended :
        /\ \A level \in LevelSet : Callbacks(c, level) = 0
        /\ last.op = "log" => WritesOf(c) = {}

\* C22: handle(record) called on a consumer of the base class, which has no
\* override, throws the method-not-implemented error and adds no line to any
\* sink.
C22_AbstractHandleThrows ==
    (last.op = "handle" /\ consumers[last.consumer].kind = "LogConsumer")
        => /\ last.err = "ERR_METHOD_NOT_IMPLEMENTED"
           /\ last.writes = <<>>
           /\ \A s \in DOMAIN sinks : \A i \in DOMAIN sinks[s].lines :
                  sinks[s].lines[i].call # ncalls

\* handle() was called on a base consumer after a JSON consumer had handled
\* and written a record
C22_Witness ==
    /\ last.op = "handle"
    /\ consumers[last.consumer].kind = "LogConsumer"
    /\ last.err = "ERR_METHOD_NOT_IMPLEMENTED"
    /\ \E s \in DOMAIN sinks : Len(sinks[s].lines) = 1

\* the sum of the message lengths of the entries of a queue
RECURSIVE QueuedSize(_)
QueuedSize(queue) ==
    IF queue = <<>> THEN 0
    ELSE Head(queue).message.length + QueuedSize(Tail(queue))

\* C23: whenever a buffered write has returned the queue holds fewer than
\* 100 entries and its tracked size is below 16384, because a call that
\* brings the queue to 100 entries or to 16384 bytes takes the whole queue,
\* its own entry included, to be written and leaves the queue empty.
C23_QueueBelowThresholds ==
    /\ Len(logBuffer) < 100
    /\ bufferSize < 16384
    /\ (last.op = "console.log"
          /\ (Len(last.queued) + 1 >= 100
                \/ QueuedSize(last.queued) + last.msgOrObj.length >= 16384))
          => /\ last.batch = Append(last.queued, [message |-> last.msgOrObj])
             /\ logBuffer = <<>>
             /\ bufferSize = 0

\* the hundredth entry of a cycle was logged and the hundred were taken to be
\* written, after an earlier flush made by a message that brought the size
\* to the threshold
C23_Witness ==
    /\ last.op = "console.log"
    /\ Len(last.batch) = 100
    /\ QueuedSize(last.batch) = 100
    /\ logBuffer = <<>>
    /\ tally.flushes = 2
    /\ tally.fired = 0

\* C24: from the idle scheduler, calls of log() with one-byte messages and no
\* task or timer run in between make no flush up to the 99th, and exactly one
\* from the 100th to the 101st: it takes the hundred entries queued at the
\* crossing as one batch, and the 101st entry stays in the queue with a flush
\* scheduled for it.
C24_OneFlushAtCrossing ==
    (tally.fired = 0 /\ tally.bytes = tally.logged /\ tally.logged <= 101)
        => /\ tally.flushes = (IF tally.logged >= 100 THEN 1 ELSE 0)
           /\ tally.logged < 100 => (stdout = <<>> /\ Len(logBuffer) = tally.logged)
           /\ (drains # <<>>)
                 => /\ Len(drains) = 1
                    /\ drains[1].by = "log"
                    /\ Len(drains[1].toFlush) = 100
                    /\ Len(stdout) = drains[1].i - 1
           /\ (tally.logged = 100 /\ drains = <<>>)
                 => (Len(stdout) = 100 /\ logBuffer = <<>>)
           /\ tally.logged = 101
                 => /\ Len(stdout) = 100
                    /\ Len(logBuffer) = 1
                    /\ flushScheduled

\* 101 one-byte messages were logged with no task or timer run: a hundred
\* lines are written and one entry is queued
C24_Witness ==
    /\ tally.logged = 101
    /\ tally.bytes = 101
    /\ tally.fired = 0
    /\ tally.flushes = 1
    /\ Len(stdout) = 100
    /\ Len(logBuffer) = 1

\* C25: from the idle scheduler, after one call of log() and no other, the
\* entry is flushed at most once, the task or timer that runs second takes
\* nothing to write, and once neither a task, a timer nor a write is pending
\* the entry has been written exactly once by exactly one flush.
C25_OneEntryOneFlush ==
    tally.logged = 1
        => /\ tally.flushes <= 1
           /\ Len(stdout) <= 1
           /\ (last.op \in {"immediate", "timeout"} /\ tally.fired = 2)
                 => last.batch = <<>>
           /\ (immediates = <<>> /\ timers = {} /\ drains = <<>>)
                 => /\ tally.flushes = 1
                    /\ Len(stdout) = 1
                    /\ logBuffer = <<>>

\* one entry was logged, the timer ran and wrote it, and the task ran after
\* it and found nothing
C25_Witness ==
    /\ tally.logged = 1
    /\ tally.fired = 2
    /\ last.op = "immediate"
    /\ last.batch = <<>>
    /\ tally.flushes = 1
    /\ Len(stdout) = 1
    /\ ~tally.exited

\* C26: a task or timer that runs after a flush has been made for the cycle
\* that armed it takes nothing to write, also when entries of a later cycle
\* are queued.
C26_StaleTriggerWritesNothing ==
    (last.op \in {"immediate", "timeout"} /\ last.trigger # last.cycle)
        => last.batch = <<>>

\* C27: a call of error() or warn() appends its line to stderr within the
\* call and leaves the queue, the tracked size, the scheduled flag, the
\* pending timer and tasks and stdout as they were, whatever is queued.
C27_PriorityBypass ==
    [][last'.op = "console.error"
         => /\ stderr' = Append(stderr, Line(last'.msgOrObj))
            /\ UNCHANGED <<logBuffer, bufferSize, flushScheduled, flushTimer,
                           immediates, timers, stdout, drains>>]_vars

\* error() or warn() wrote its line while an entry logged before it is still
\* queued and unwritten
C27_Witness ==
    /\ last.op = "console.error"
    /\ logBuffer # <<>>
    /\ logBuffer[1].message.text < last.msgOrObj.text
    /\ flushScheduled
    /\ stdout = <<>>
    /\ stderr = <<Line(last.msgOrObj)>>

\* C28: while a flush is between two entries of the batch it took, whatever
\* is written to stdout is an entry of that batch: an entry logged from
\* inside a write is not written before the batch is done.
C28_BatchNotInterleaved ==
    (last.op = "write" /\ drains # <<>> /\ drains[1].i > 1)
        => \E k \in DOMAIN drains[1].toFlush :
              drains[1].toFlush[k].message = last.msgOrObj

\* C29, as the spec states it: every call of log() returns with its entry
\* added to the queue and takes nothing to write within the call.
C29_WriteDeferred ==
    last.op = "console.log"
        => /\ last.batch = <<>>
           /\ logBuffer = Append(last.queued, [message |-> last.msgOrObj])

\* the call of log() brings the queue to neither threshold
BelowThresholds ==
    /\ Len(last.queued) + 1 < 100
    /\ QueuedSize(last.queued) + last.msgOrObj.length < 16384

\* C29, amended: a call of log() that brings the queue to neither threshold
\* returns with its entry added to the queue, a flush scheduled, and nothing
\* taken to write within the call; a call that brings the queue to a
\* threshold takes the whole queue, its own entry included, to write within
\* the call.
C29_WriteDeferredBelowThresholds ==
    last.op = "console.log"
        => IF BelowThresholds
           THEN /\ last.batch = <<>>
                /\ logBuffer = Append(last.queued, [message |-> last.msgOrObj])
                /\ flushScheduled
                /\ Truthy(flushTimer) /\ flushTimer.id \in timers
           ELSE /\ last.batch = Append(last.queued, [message |-> last.msgOrObj])
                /\ logBuffer = <<>>

\* a second entry was logged into a cycle under way and nothing has been
\* written
C29_Witness ==
    /\ last.op = "console.log"
    /\ BelowThresholds
    /\ Len(logBuffer) = 2
    /\ last.batch = <<>>
    /\ stdout = <<>>
    /\ drains = <<>>

\* C30: the 'exit' listener takes every entry still queued to write and
\* leaves the queue empty; when it is done every call of log() made before
\* has its line on stdout, once.
C30_ExitFlushesAll ==
    /\ last.op = "exit" => (last.batch = last.queued /\ logBuffer = <<>>)
    /\ (tally.exited /\ drains = <<>>)
          => /\ logBuffer = <<>>
             /\ bufferSize = 0
             /\ Len(stdout) = tally.logged
             /\ {stdout[i].text : i \in DOMAIN stdout}
                   \cup {stderr[i].text : i \in DOMAIN stderr}
                   = 1..(tally.logged + tally.direct)

\* the process exited with two entries queued, after an earlier flush by a
\* task or a timer, and all three are written
C30_Witness ==
    /\ tally.exited
    /\ drains = <<>>
    /\ last.op = "write"
    /\ tally.fired >= 1
    /\ tally.flushes = 2
    /\ Len(stdout) = 3
    /\ tally.logged = 3

\* a primitive, or a plain object or array whose members are all PlainData
RECURSIVE PlainData(_)
PlainData(v) ==
    CASE v.t \in {"null", "undefined", "string", "number", "boolean"} -> TRUE
      [] v.t = "object" -> \A k \in DOMAIN v.m : PlainData(v.m[k])
      [] v.t = "array" -> \A i \in DOMAIN v.a : PlainData(v.a[i])
      [] OTHER -> FALSE

\* C31: the text of a value that is no primitive is made by JSON.stringify
\* only when the value is a plain object or array whose members are, at every
\* depth, primitives and plain objects and arrays; every other such value,
\* also a plain container that holds a function, an instance of a class or a
\* reference to itself, is given to inspect.
C31_FastPathOnlyPlainData ==
    (last.op = "console.error"
        /\ last.fields.t \in {"object", "array", "instance", "function", "error"})
        => last.msgOrObj.text.by =
              (IF PlainData(last.fields) THEN "JSON.stringify" ELSE "inspect")

\* C32: the lines written to stdout are, in order, the messages of the first
\* calls of log(): none is written twice, none out of the order of the calls.
C32_FifoExactlyOnce ==
    /\ Len(stdout) <= Len(tally.texts)
    /\ \A i \in DOMAIN stdout : stdout[i].text = tally.texts[i]

\* C33: a call of log() that queues its message behind others arms no task
\* and no timer and leaves the pending timer as it is; a call that queues the
\* first message of a cycle arms one new task and one new timer.
C33_ArmedByFirstEnqueue ==
    [][last'.op = "console.log" /\ logBuffer' # <<>>
         => IF logBuffer = <<>>
            THEN /\ Len(immediates') = Len(immediates) + 1
                 /\ Truthy(flushTimer')
                 /\ flushTimer'.id \notin timers
                 /\ timers' = timers \cup {flushTimer'.id}
                 /\ immediates'[Len(immediates')] = flushTimer'.id
            ELSE /\ immediates' = immediates
                 /\ timers' = timers
                 /\ flushTimer' = flushTimer]_vars

\* a third message is queued in a cycle whose timer was armed by the first
C33_Witness ==
    /\ last.op = "console.log"
    /\ Len(logBuffer) = 3
    /\ Truthy(flushTimer)
    /\ flushTimer.id = last.cycle
    /\ timers = {flushTimer.id}

\* C34: between operations the queue is non-empty exactly when the flag is
\* set and exactly when a timer is kept in flushTimer; at most one timer is
\* pending; a step that flushes a non-empty queue leaves the queue empty, the
\* size 0, the flag false and no timer.
C34_SchedulerConsistent ==
    /\ []( /\ (logBuffer # <<>>) <=> flushScheduled
           /\ flushScheduled <=> Truthy(flushTimer)
           /\ Cardinality(timers) <= 1
           /\ Truthy(flushTimer) => timers = {flushTimer.id} )
    /\ [][tally'.flushes > tally.flushes
            => /\ logBuffer' = <<>>
               /\ bufferSize' = 0
               /\ ~flushScheduled'
               /\ flushTimer' = Null
               /\ timers' = {}]_vars

\* a timer has ended a cycle of two messages and the scheduler is idle
C34_Witness ==
    /\ last.op = "timeout"
    /\ Len(last.batch) = 2
    /\ logBuffer = <<>>
    /\ bufferSize = 0
    /\ ~flushScheduled
    /\ flushTimer = Null

\* C35: the tracked size is the sum of the lengths of the queued messages.
C35_SizeIsSumOfQueued ==
    bufferSize = QueuedSize(logBuffer)

\* three messages are queued after an earlier flush of a larger one
C35_Witness ==
    /\ Len(logBuffer) = 3
    /\ bufferSize = 3
    /\ tally.flushes > 0
    /\ tally.bytes >= kBufferFlushThreshold

\* C36: a valid call of the method of level L on a logger of threshold T is
\* written by an attached consumer of threshold C exactly when
\* weight(L) >= weight(T) and weight(L) >= weight(C), for every logger and
\* every attached consumer.
C36_ReachesIffBothThresholds ==
    (last.op = "log" /\ ValidCall(last.msgOrObj, last.fields))
        => \A c \in Attached :
              (WritesOf(c) # {})
                 <=> /\ WeightEnabled(LastLogger, last.name)
                     /\ LevelWeight(last.name) >= LevelWeight(consumers[c]._level)

\* C37: handle(record) called on a JSON consumer with any record, also one of
\* a level below the consumer's threshold, makes exactly one write, of one
\* line that ends with a newline, to the consumer's sink, and leaves the
\* consumer as it was.
C37_HandleWritesOnce ==
    [][(last'.op = "handle" /\ consumers[last'.consumer].kind = "JSONConsumer")
         => LET c == last'.consumer
                at == consumers[c]._stream
            IN  /\ last'.err = ""
                /\ Len(last'.writes) = 1
                /\ last'.writes[1].sink = at
                /\ last'.writes[1].data = handle(consumers[c], last'.published[1])
                /\ last'.writes[1].data.eol = "\n"
                /\ Len(sinks'[at].lines) = Len(sinks[at].lines) + 1
                /\ sinks'[at].lines[Len(sinks'[at].lines)].data = last'.writes[1].data
                /\ \A s \in DOMAIN sinks : s # at => sinks'[s] = sinks[s]
                /\ consumers' = consumers
                /\ channels' = channels]_vars

\* a consumer of threshold fatal has handled a record of level trace and
\* written its line
C37_Witness ==
    /\ last.op = "handle"
    /\ consumers[last.consumer]._level = "fatal"
    /\ last.published[1].level = Str("trace")
    /\ Len(last.writes) = 1
    /\ last.writes[1].data.json.m["msg"] = Str("low")
    /\ Len(sinks[consumers[last.consumer]._stream].lines) >= 1

\* the keys _serializeError sets before it copies the enumerable properties
ReservedKeys == {"message", "name", "stack", "code", "cause"}

\* the serialized form the last call published under fields.err
PublishedErr == Get(last.published[1].fields.m, "err")

\* C38: in the serialized form of an Error, message, name and stack are the
\* Error's, code and cause are present with the captured value when the Error
\* has them (a cause that is an Error as a serialized form or the marker,
\* never the Error itself), also when the value is falsy, and every other
\* enumerable property of the Error is present with the Error's value.
C38_ReservedKeysKept ==
    CallSerialized.t = "error"
        => LET id == CallSerialized.id
               ser == PublishedErr
               cause == ErrGet(id, "cause")
           IN  /\ ser.t = "object"
               /\ \A k \in {"message", "name", "stack"} :
                      k \in DOMAIN ser.m /\ ser.m[k] = ErrGet(id, k)
               /\ ~IsUndefined(ErrGet(id, "code"))
                      => "code" \in DOMAIN ser.m /\ ser.m["code"] = ErrGet(id, "code")
               /\ ~IsUndefined(cause)
                      => /\ "cause" \in DOMAIN ser.m
                         /\ IF cause.t = "error"
                            THEN \/ ser.m["cause"] = Str("[Circular]")
                                 \/ /\ ser.m["cause"].t = "object"
                                    /\ ser.m["cause"].m["message"]
                                          = ErrGet(cause.id, "message")
                            ELSE ser.m["cause"] = cause
               /\ \A k \in ErrorPool(id).enumerable \ ReservedKeys :
                      k \in DOMAIN ser.m /\ ser.m[k] = ErrGet(id, k)

\* malformed input of a log method: a map without a string msg, or a fields
\* argument that is present and is not a map
Malformed(msgOrObj, fields) ==
    \/ msgOrObj.t = "object" /\ Get(msgOrObj.m, "msg").t # "string"
    \/ fields.t \notin {"undefined", "object"}

\* C39: a call with malformed input throws nothing, publishes nothing and
\* writes nothing when the level is below the logger's threshold, and throws
\* the invalid-argument error when the level is enabled.
C39_ValidationOnlyWhenEnabled ==
    (last.op = "log" /\ Malformed(last.msgOrObj, last.fields))
        => /\ WeightDisabled(LastLogger, last.name)
                => /\ last.err = ""
                   /\ last.published = <<>>
                   /\ last.writes = <<>>
           /\ WeightEnabled(LastLogger, last.name)
                => last.err = "ERR_INVALID_ARG_TYPE"

\* the sink of the consumer the last constructor call made
MadeSink == sinks[consumers[last.created]._stream]

\* C40: new JSONConsumer({stream}) with a number n makes a consumer whose sink
\* is on descriptor n; a consumer whose stream was given otherwise than as 1
\* does not write to descriptor 1; a stream that is given and is neither a
\* number, a string nor a stream object throws the invalid-argument error.
C40_StreamTargetsDescriptor ==
    last.op = "JSONConsumer"
        => LET stream == last.msgOrObj
           IN  /\ stream.t = "number"
                    => /\ last.err = ""
                       /\ last.created # 0
                       /\ MadeSink.fd = stream
               /\ (last.err = "" /\ MadeSink.fd = Num(1))
                    => stream \in {Undefined, Num(1)}
               /\ stream.t \notin {"undefined", "number", "string", "Utf8Stream"}
                    => last.err = "ERR_INVALID_ARG_TYPE" /\ last.created = 0

====
